---- MODULE Spec2Model ----
(***************************************************************************)
(* Model of the retrieval and generation core of RAG_Backend:              *)
(*   - GeminiClient: credential pool and key rotation                      *)
(*     (services/gemini_client.py)                                         *)
(*   - VectorStore / MongoDBVectorStore / ZillizVectorStore: similarity    *)
(*     search with tiered fallback (retriever/*.py)                        *)
(*   - the stored chunks: ingest, delete, paginated listing, search        *)
(*     (services/orchestrator.py, retriever/*.py, api/file_route.py)       *)
(*   - ChatService: sessions and their messages                            *)
(*     (services/chat_service.py, api/chat_route.py)                       *)
(*   - TelegramService: the in-memory sessions and their cleanup task      *)
(*     (services/telegram_service.py)                                      *)
(*   - Orchestrator.handle_text and the chat request built on it           *)
(*     (services/orchestrator.py, api/chat_route.py)                       *)
(*   - the upload of a file, chunk by chunk, and its deletion by id        *)
(*     (api/file_route.py, services/orchestrator.py, retriever/)           *)
(***************************************************************************)
EXTENDS Integers, Sequences, FiniteSets, TLC

(***************************************************************************)
(* Bounds of the model                                                     *)
(***************************************************************************)
\* largest configured credential pool
MaxKeys == 3
\* largest number of texts passed to one get_embeddings call
MaxTexts == 2
\* operations (generate_response / get_embeddings) started on the client
MaxOps == 2
\* coroutines that use the same GeminiClient concurrently
NumCallers == 2
\* file_ids under which chunks are stored
MaxFiles == 2
\* largest page_size asked of the file listing
MaxPageSize == 2

Callers ==
    1..NumCallers

(***************************************************************************)
(* Error messages.  A message is represented by the set of the substrings  *)
(* of its lower-cased text that matter to the classification.              *)
(***************************************************************************)
RotatableTokens ==
    {"quota", "rate", "exceed", "permission", "api key invalid",
     "api key not valid", "429"}

Messages ==
    { {"quota", "exceed"}, {"api key not valid"}, {"timeout"} }

\* mutation of IsRotatable: every failure is taken for a quota failure
IsRotatableAny(message) ==
    TRUE

\* gemini_client.py:50-53  any(token in message for token in [...])
IsRotatable(message) ==
    \E token \in RotatableTokens : token \in message

\* mutation of RotateKey: the index is advanced without wrapping
RotateKeyNoWrap(index, n) ==
    index + 1

\* mutation of RotateKey: the index is left where it is
RotateKeyStuck(index, n) ==
    index

\* gemini_client.py:31  (self._key_index + 1) % len(self._api_keys)
RotateKey(index, n) ==
    (index + 1) % n

\* mutation of Limit: one attempt more than there are keys
LimitPlusOne(max_attempts, n) ==
    IF max_attempts # 0 THEN max_attempts ELSE n + 1

\* gemini_client.py:43  limit = max_attempts or len(self._api_keys)
\* (None and 0 are both falsy; None is written 0)
Limit(max_attempts, n) ==
    IF max_attempts # 0 THEN max_attempts ELSE n

\* mutation of ShouldContinue: off-by-one loop condition
ShouldContinueInclusive(att, lim) ==
    att <= lim

\* gemini_client.py:45  while attempts < limit
ShouldContinue(att, lim) ==
    att < lim

NoError == [attempt |-> 0, msg |-> {}]

\* mutation of RecordError: the first error is kept
RecordFirstError(prev, e) ==
    IF prev = NoError THEN e ELSE prev

\* gemini_client.py:49  last_error = e
RecordError(prev, e) ==
    e

VARIABLES
    nKeys,       \* len(Config.GEMINI_API_KEYS or [GEMINI_API_KEY])
    client,      \* "unbuilt" | "ready" | "failed" (ValueError in __init__)
    keyIndex,    \* GeminiClient._key_index
    pc,          \* per caller: "idle" | "awaiting" (func in a thread) | "done"
    textIdx,     \* per caller: texts of get_embeddings handled or in hand
    attempts,    \* per caller: local attempts of _with_key_rotation
    limit,       \* per caller: local limit
    last_error,  \* per caller: local last_error
    calls,       \* per caller: invocations of func in this _with_key_rotation
    usedKey,     \* per caller: key index in force when func was dispatched
    startIdx,    \* per caller: key index when _with_key_rotation was entered
    quiet,       \* per caller: no other caller rotated since that entry
    outcome,     \* per caller: "none" | "ok" | "exhausted" | "immediate"
    raised,      \* per caller: the error the call raised
    opsStarted,  \* operations started on the client
    rotations,   \* number of _rotate_key executions
    storeType,   \* Config.VECTOR_STORE_TYPE: "mongodb" | "zilliz"
    via,         \* entry of the running search: "VectorStore" | "backend"
    spc,         \* position of the running search
    tried,       \* tiers of the document store consulted, in order
    tierOut,     \* per tier: "none" | "pending" | "hits" | "empty" | "error"
    result,      \* what the search gave its caller
    rows,        \* per file_id: chunk records stored under it
    hasq,        \* per file_id: one of its chunks contains the probe query
    order,       \* file_ids that have chunks, in order of insertion
    dim,         \* embedding dim of the collection found: "match" | "mismatch"
    last,        \* the last operation on the chunk store and what it gave
    lst,         \* the traversal of GET /files, page after page
    server,      \* what mongod does with a $set of {"$inc": n}
    clock,       \* datetime.utcnow(), in hours
    ticks,       \* advances of the clock so far
    sessions,    \* sessions_collection, a document for each session id
    messages,    \* messages_collection, in order of insertion
    wr,          \* per writer: position and locals of its add_message
    slast,       \* the last ChatService operation and what it gave
    tgSessions,  \* TelegramService.sessions: session id -> session
    tgIndex,     \* TelegramService.user_sessions: telegram_id -> session id
    tgClock,     \* the wall clock of the bot process, in hours
    tgTicks,     \* advances of that clock so far
    tgMade,      \* sessions created so far (the next one gets a new id)
    tgTask,      \* _cleanup_task: "running" | "cancelling" | "cancelled"
    tgLast,      \* the last TelegramService operation and what it gave
    poolKeys,    \* len(self._api_keys), the same pool in every client
    genaiKey,    \* index of the key genai.configure was last called with
    keyIndexOf,  \* per GeminiClient instance: _key_index (-1: not built)
    rcall,       \* per caller: its call through some client's wrapper
    poolOps,     \* calls started through the clients
    chat_history,\* GeminiClient.chat_history of one client
    appended,    \* entries appended to chat_history so far
    gen,         \* per caller: its generation call on that client
    genStarted,  \* generation calls started
    ask,         \* per caller: its request POST /chat/sessions/{id}/chat
    chatLog,     \* the messages of the session, in order of insertion
    askStarted,  \* chat requests started
    up,          \* per upload: the file of POST /files being indexed
    docs,        \* the documents of the collection, in order of insertion
    upStarted,   \* uploads started
    deletedIds   \* the ids DELETE /file/{file_id} has been called with

varsRot ==
    <<nKeys, client, keyIndex, pc, textIdx, attempts, limit, last_error,
      calls, usedKey, startIdx, quiet, outcome, raised, opsStarted,
      rotations>>

varsSearch ==
    <<storeType, via, spc, tried, tierOut, result>>

varsStore ==
    <<rows, hasq, order, dim, last, lst>>

varsChat ==
    <<server, clock, ticks, sessions, messages, wr, slast>>

varsTg ==
    <<tgSessions, tgIndex, tgClock, tgTicks, tgMade, tgTask, tgLast>>

varsPool ==
    <<poolKeys, genaiKey, keyIndexOf, rcall, poolOps>>

varsHist ==
    <<chat_history, appended, gen, genStarted>>

varsAsk ==
    <<ask, chatLog, askStarted>>

varsUp ==
    <<up, docs, upStarted, deletedIds>>

\* the variables of the parts that follow the chat part
varsRest ==
    <<varsTg, varsPool, varsHist, varsAsk, varsUp>>

\* the variables of the first four parts
varsCore ==
    <<varsRot, varsSearch, varsStore, varsChat>>

\* what the operations of one of the later parts leave alone
othersTg ==
    <<varsCore, varsPool, varsHist, varsAsk, varsUp>>

othersPool ==
    <<varsCore, varsTg, varsHist, varsAsk, varsUp>>

othersHist ==
    <<varsCore, varsTg, varsPool, varsAsk, varsUp>>

othersAsk ==
    <<varsRot, varsSearch, varsStore, varsTg, varsPool, varsHist, varsUp>>

othersUp ==
    <<varsRot, via, spc, tried, tierOut, result, varsStore, varsChat,
      varsTg, varsPool, varsHist, varsAsk>>

vars ==
    <<nKeys, client, keyIndex, pc, textIdx, attempts, limit, last_error,
      calls, usedKey, startIdx, quiet, outcome, raised, opsStarted,
      rotations, storeType, via, spc, tried, tierOut, result,
      rows, hasq, order, dim, last, lst,
      server, clock, ticks, sessions, messages, wr, slast,
      tgSessions, tgIndex, tgClock, tgTicks, tgMade, tgTask, tgLast,
      poolKeys, genaiKey, keyIndexOf, rcall, poolOps,
      chat_history, appended, gen, genStarted,
      ask, chatLog, askStarted,
      up, docs, upStarted, deletedIds>>

Tiers ==
    1..3

NoResult ==
    [kind |-> "none", hits |-> <<>>]

\* no search is running and none has run
SearchIdle ==
    /\ via = "none"
    /\ spc = "idle"
    /\ tried = <<>>
    /\ tierOut = [t \in Tiers |-> "none"]
    /\ result = NoResult

Files ==
    1..MaxFiles

\* no operation on the chunk store has run
NoOp ==
    [op |-> "none", file |-> 0, status |-> "ok", repeat |-> FALSE,
     before |-> [f \in Files |-> 0], hits |-> <<>>, tier |-> 0,
     plain |-> TRUE]

\* no traversal of the file listing has started
NoListing ==
    [phase |-> "idle", order_by |-> "created_at", direction |-> "desc",
     page_size |-> 1, page |-> 0, total_pages |-> 0, acc |-> <<>>,
     beyond |-> <<>>]

\* no ChatService operation has run or is running
NoChatOp ==
    [op |-> "none", sid |-> 0, user |-> 0, status |-> "ok", via |-> "none",
     auth |-> "none", supplied |-> "absent", ids |-> <<>>, msgs |-> <<>>]

IdleWriter ==
    [pc |-> "idle", session_id |-> 0, now |-> 0, tokens_used |-> 0]

\* empty session and message collections
ChatIdle ==
    /\ server = "stores"
    /\ clock = 0
    /\ ticks = 0
    /\ sessions = <<>>
    /\ messages = <<>>
    /\ wr = [p \in Callers |-> IdleWriter]
    /\ slast = NoChatOp

\* no TelegramService operation has run
NoTgOp ==
    [op |-> "none", user |-> 0, sid |-> 0, status |-> "ok", expired |-> {}]

\* telegram_service.py:29-50  TelegramService.__init__: both maps are empty
\* and the cleanup task is started
TgIdle ==
    /\ tgSessions = <<>>
    /\ tgIndex = <<>>
    /\ tgClock = 0
    /\ tgTicks = 0
    /\ tgMade = 0
    /\ tgTask = "running"
    /\ tgLast = NoTgOp

\* GeminiClient instances of one process
NumClients == 2

Clients ==
    1..NumClients

\* no key is configured, no client is built
NotBuilt ==
    -1

\* a caller that is not inside _with_key_rotation
NoCall ==
    [pc |-> "idle", client |-> 0, attempts |-> 0, own |-> NotBuilt,
     sent |-> NotBuilt, seen |-> {}, outcome |-> "none"]

\* no GeminiClient has been constructed in the process
PoolIdle ==
    /\ poolKeys = 1
    /\ genaiKey = NotBuilt
    /\ keyIndexOf = [c \in Clients |-> NotBuilt]
    /\ rcall = [p \in Callers |-> NoCall]
    /\ poolOps = 0

\* gemini_client.py:20  self.chat_history = []
HistIdle ==
    /\ chat_history = <<>>
    /\ appended = 0
    /\ gen = [p \in Callers |-> "idle"]
    /\ genStarted = 0

\* a caller with no chat request: id numbers the request, pc is its
\* position, trace the calls handle_text has made for it, failed the call
\* that raised, handle how handle_text ended, status and returned what the
\* request was answered
NoRequest ==
    [id |-> 0, pc |-> "idle", trace |-> <<>>, failed |-> "none",
     handle |-> "none", status |-> "none", returned |-> "none"]

\* no chat request has been made on the session
AskIdle ==
    /\ ask = [p \in Callers |-> NoRequest]
    /\ chatLog = <<>>
    /\ askStarted = 0

\* uploads started
MaxUploads == 2

\* the uploads, by the order in which uuid4 made their file_id
Uploads ==
    1..MaxUploads

\* an upload that has not begun: file_id and reported are ids, chunks the
\* number of chunks, pass the client that embeds (1 of VectorStore, 2 of
\* the backend), embedded the chunks of this pass already embedded
NoUpload ==
    [pc |-> "idle", file_id |-> <<>>, filename |-> "none", chunks |-> 0,
     pass |-> 0, embedded |-> 0, status |-> "none", reported |-> <<>>,
     error |-> "none"]

\* no file has been uploaded and the collection is empty
UpIdle ==
    /\ up = [u \in Uploads |-> NoUpload]
    /\ docs = <<>>
    /\ upStarted = 0
    /\ deletedIds = {}

\* the parts that follow the chat part are as constructed
RestIdle ==
    /\ TgIdle
    /\ PoolIdle
    /\ HistIdle
    /\ AskIdle
    /\ UpIdle

\* an empty collection that nothing has touched
StoreIdle ==
    /\ rows = [f \in Files |-> 0]
    /\ hasq = [f \in Files |-> FALSE]
    /\ order = <<>>
    /\ dim = "match"
    /\ last = NoOp
    /\ lst = NoListing

\* mutation of RotateFrom: the index read before the await is used
RotateFromStale(p) ==
    usedKey[p]

\* gemini_client.py:31  the value of self._key_index that _rotate_key reads
RotateFrom(p) ==
    keyIndex

InitRot ==
    /\ nKeys \in 0..MaxKeys
    /\ client = "unbuilt"
    /\ keyIndex = 0
    /\ pc = [p \in Callers |-> "idle"]
    /\ textIdx = [p \in Callers |-> 0]
    /\ attempts = [p \in Callers |-> 0]
    /\ limit = [p \in Callers |-> 0]
    /\ last_error = [p \in Callers |-> NoError]
    /\ calls = [p \in Callers |-> 0]
    /\ usedKey = [p \in Callers |-> 0]
    /\ startIdx = [p \in Callers |-> 0]
    /\ quiet = [p \in Callers |-> TRUE]
    /\ outcome = [p \in Callers |-> "none"]
    /\ raised = [p \in Callers |-> NoError]
    /\ opsStarted = 0
    /\ rotations = 0
    /\ storeType = "mongodb"
    /\ SearchIdle
    /\ StoreIdle
    /\ ChatIdle
    /\ RestIdle

\* gemini_client.py:11-28  GeminiClient.__init__
Construct ==
    /\ client = "unbuilt"
    /\ client' = IF nKeys = 0 THEN "failed" ELSE "ready"
    /\ keyIndex' = 0
    /\ UNCHANGED <<nKeys, pc, textIdx, attempts, limit, last_error, calls,
                   usedKey, startIdx, quiet, outcome, raised, opsStarted,
                   rotations>>
    /\ UNCHANGED <<varsSearch, varsStore, varsChat, varsRest>>

\* p enters _with_key_rotation (lines 42-47): the locals are initialised and
\* func is dispatched to a thread under the key that is active now
EnterWrapper(p) ==
    /\ attempts' = [attempts EXCEPT ![p] = 0]
    /\ limit' = [limit EXCEPT ![p] = Limit(0, nKeys)]
    /\ last_error' = [last_error EXCEPT ![p] = NoError]
    /\ calls' = [calls EXCEPT ![p] = 1]
    /\ usedKey' = [usedKey EXCEPT ![p] = keyIndex]
    /\ startIdx' = [startIdx EXCEPT ![p] = keyIndex]
    /\ quiet' = [quiet EXCEPT ![p] = TRUE]
    /\ outcome' = [outcome EXCEPT ![p] = "none"]
    /\ raised' = [raised EXCEPT ![p] = NoError]

\* gemini_client.py:72-83 generate_response and 184-192 get_embeddings, up
\* to the first await inside _with_key_rotation
BeginCall(p) ==
    /\ client = "ready"
    /\ pc[p] \in {"idle", "done"}
    /\ opsStarted < MaxOps
    /\ opsStarted' = opsStarted + 1
    /\ textIdx' = [textIdx EXCEPT ![p] = 1]
    /\ pc' = [pc EXCEPT ![p] = "awaiting"]
    /\ EnterWrapper(p)
    /\ UNCHANGED <<nKeys, client, keyIndex, rotations>>
    /\ UNCHANGED <<varsSearch, varsStore, varsChat, varsRest>>

\* gemini_client.py:47 func returned and _with_key_rotation returns its
\* value.  generate_response returns; get_embeddings (lines 187-234) goes on
\* with the next text when more is TRUE (len(texts) is read only here, so it
\* is drawn here) and returns the embeddings otherwise.
FuncReturns(p, more) ==
    /\ pc[p] = "awaiting"
    /\ IF more
       THEN /\ textIdx[p] < MaxTexts
            /\ textIdx' = [textIdx EXCEPT ![p] = @ + 1]
            /\ EnterWrapper(p)
            /\ UNCHANGED pc
       ELSE /\ pc' = [pc EXCEPT ![p] = "done"]
            /\ outcome' = [outcome EXCEPT ![p] = "ok"]
            /\ UNCHANGED <<textIdx, attempts, limit, last_error, calls,
                           usedKey, startIdx, quiet, raised>>
    /\ UNCHANGED <<nKeys, client, keyIndex, opsStarted, rotations>>
    /\ UNCHANGED <<varsSearch, varsStore, varsChat, varsRest>>

\* gemini_client.py:48-70 func raised e with message m
FuncFails(p, m) ==
    /\ pc[p] = "awaiting"
    /\ LET e == [attempt |-> calls[p], msg |-> m]
           le == RecordError(last_error[p], e)
       IN /\ last_error' = [last_error EXCEPT ![p] = le]
          /\ IF IsRotatable(m)
             THEN LET idx == RotateKey(RotateFrom(p), nKeys)
                      att == attempts[p] + 1
                  IN /\ keyIndex' = idx
                     /\ rotations' = rotations + 1
                     /\ quiet' = [q \in Callers |-> IF q = p THEN quiet[q]
                                                    ELSE FALSE]
                     /\ attempts' = [attempts EXCEPT ![p] = att]
                     /\ IF ShouldContinue(att, limit[p])
                        THEN /\ calls' = [calls EXCEPT ![p] = @ + 1]
                             /\ usedKey' = [usedKey EXCEPT ![p] = idx]
                             /\ UNCHANGED <<pc, outcome, raised>>
                        ELSE /\ pc' = [pc EXCEPT ![p] = "done"]
                             /\ outcome' = [outcome EXCEPT ![p] = "exhausted"]
                             /\ raised' = [raised EXCEPT ![p] = le]
                             /\ UNCHANGED <<calls, usedKey>>
             ELSE /\ pc' = [pc EXCEPT ![p] = "done"]
                  /\ outcome' = [outcome EXCEPT ![p] = "immediate"]
                  /\ raised' = [raised EXCEPT ![p] = e]
                  /\ UNCHANGED <<keyIndex, rotations, quiet, attempts, calls,
                                 usedKey>>
    /\ UNCHANGED <<nKeys, client, textIdx, limit, startIdx, opsStarted>>
    /\ UNCHANGED <<varsSearch, varsStore, varsChat, varsRest>>

NextRot ==
    \/ Construct
    \/ \E p \in Callers : BeginCall(p)
    \/ \E p \in Callers, more \in BOOLEAN : FuncReturns(p, more)
    \/ \E p \in Callers, m \in Messages : FuncFails(p, m)

SpecRot ==
    InitRot /\ [][NextRot]_vars

(***************************************************************************)
(* Similarity search: VectorStore and its two backends                     *)
(* Scores and distances are written in thousandths (1.0 is 1000).          *)
(***************************************************************************)
\* most hits one store query returns (stands for the limit k)
MaxHits == 2

\* 1.0 in thousandths
One == 1000

\* scores the stores hand back, in thousandths:
\* vectorSearchScore of $vectorSearch (mongodb_vectorstore.py:141), in [0, 1]
VectorScores ==
    {0, 500, 1000}

\* textScore of $text (mongodb_vectorstore.py:183), any positive number
TextScores ==
    {600, 1500, 12000}

\* hit.score under metric_type COSINE (zilliz_vectorstore.py:184-204), in
\* [-1, 1]
CosineScores ==
    {-500, 0, 1000}

Lists(S) ==
    UNION {[1..n -> S] : n \in 0..MaxHits}

\* what one store query gives: an exception or a list of scores
Answers(S) ==
    {[err |-> "error", scores |-> <<>>]} \cup
    {[err |-> "none", scores |-> l] : l \in Lists(S)}

\* what the ANN search gives after the embedding: an exception in
\* collection.load(), in collection.search(), in eval() of the metadata, or
\* the scores of the hits
ZillizAnswers ==
    {[err |-> e, scores |-> <<>>] :
        e \in {"embedding", "load", "search", "decode"}} \cup
    {[err |-> "none", scores |-> l] : l \in Lists(CosineScores)}

\* mongodb_vectorstore.py:155  1 - result.get("score", 0)
VectorDistance(score) ==
    One - score

\* mongodb_vectorstore.py:194  1 - (result.get("score", 0) / 10)
TextDistance(score) ==
    One - (score \div 10)

\* mongodb_vectorstore.py:218  "distance": 0.5
NeutralDistance == 500

\* zilliz_vectorstore.py:204  1 - hit.score
CosineDistance(score) ==
    One - score

\* mutation of AfterVector: the fallback is run whatever tier 1 found
AfterVectorAlwaysFallback(documents) ==
    "fallback"

\* mongodb_vectorstore.py:161-166  if documents: return ... else: fallback
AfterVector(documents) ==
    IF documents # <<>> THEN "return" ELSE "fallback"

\* mutation of AfterText: the regex query is run whatever tier 2 found
AfterTextAlwaysRegex(results) ==
    "regex"

\* mongodb_vectorstore.py:188  if results: ... return documents
AfterText(results) ==
    IF results # <<>> THEN "return" ELSE "regex"

Classify(ans) ==
    IF ans.err # "none" THEN "error"
    ELSE IF ans.scores = <<>> THEN "empty" ELSE "hits"

\* the formatted documents of tier t, one for each distance
Hits(distances, t) ==
    [i \in 1..Len(distances) |-> [distance |-> distances[i], tier |-> t]]

\* a client that is constructed and not in use
RotReady ==
    /\ nKeys = 1
    /\ client = "ready"
    /\ keyIndex = 0
    /\ pc = [p \in Callers |-> "idle"]
    /\ textIdx = [p \in Callers |-> 0]
    /\ attempts = [p \in Callers |-> 0]
    /\ limit = [p \in Callers |-> 0]
    /\ last_error = [p \in Callers |-> NoError]
    /\ calls = [p \in Callers |-> 0]
    /\ usedKey = [p \in Callers |-> 0]
    /\ startIdx = [p \in Callers |-> 0]
    /\ quiet = [p \in Callers |-> TRUE]
    /\ outcome = [p \in Callers |-> "none"]
    /\ raised = [p \in Callers |-> NoError]
    /\ opsStarted = 0
    /\ rotations = 0

\* vectorstore.py:19-28  VectorStore.__init__ with a supported store type
InitSearch ==
    /\ RotReady
    /\ storeType \in {"mongodb", "zilliz"}
    /\ SearchIdle
    /\ StoreIdle
    /\ ChatIdle
    /\ RestIdle

\* the backend's similarity_search is entered and awaits its own
\* get_embeddings([query]) (mongodb_vectorstore.py:119-121,
\* zilliz_vectorstore.py:175-177); for the document store this is the start
\* of tier 1
EnterBackend ==
    IF storeType = "mongodb"
    THEN /\ spc' = "m_embed"
         /\ tried' = <<1>>
         /\ tierOut' = [t \in Tiers |-> IF t = 1 THEN "pending" ELSE "none"]
    ELSE /\ spc' = "z_embed"
         /\ tried' = <<>>
         /\ tierOut' = [t \in Tiers |-> "none"]

\* a search starts, through VectorStore.similarity_search
\* (vectorstore.py:84-90) or on the backend object itself
SearchBegin(v) ==
    /\ spc \in {"idle", "done"}
    /\ via' = v
    /\ result' = NoResult
    /\ IF v = "VectorStore"
       THEN /\ spc' = "wrapper_embed"
            /\ tried' = <<>>
            /\ tierOut' = [t \in Tiers |-> "none"]
       ELSE EnterBackend
    /\ UNCHANGED storeType
    /\ UNCHANGED <<varsRot, varsStore, varsChat, varsRest>>

\* vectorstore.py:90-100  the wrapper's get_embeddings([query]) is over: the
\* backend is called, or the exception is logged and raised again
WrapperEmbedDone(ok) ==
    /\ spc = "wrapper_embed"
    /\ IF ok
       THEN EnterBackend /\ UNCHANGED result
       ELSE /\ spc' = "done"
            /\ result' = [kind |-> "raise", hits |-> <<>>]
            /\ UNCHANGED <<tried, tierOut>>
    /\ UNCHANGED <<storeType, via>>
    /\ UNCHANGED <<varsRot, varsStore, varsChat, varsRest>>

\* mongodb_vectorstore.py:166,172  _fallback_text_search is entered and
\* awaits the $text query; tier t has ended with outcome o
StartFallback(t, o) ==
    /\ spc' = "m_text"
    /\ tried' = Append(tried, 2)
    /\ tierOut' = [tierOut EXCEPT ![t] = o, ![2] = "pending"]
    /\ UNCHANGED result

\* mongodb_vectorstore.py:207-211  the $regex query is issued; tier 2 has
\* ended with outcome o
StartRegex(o) ==
    /\ spc' = "m_regex"
    /\ tried' = Append(tried, 3)
    /\ tierOut' = [tierOut EXCEPT ![2] = o, ![3] = "pending"]
    /\ UNCHANGED result

Return(t, o, documents) ==
    /\ spc' = "done"
    /\ tierOut' = [tierOut EXCEPT ![t] = o]
    /\ result' = [kind |-> "list", hits |-> documents]
    /\ UNCHANGED tried

\* mongodb_vectorstore.py:121-147,168-172  the embedding of the query is
\* over: the $vectorSearch aggregation is awaited, or the exception sends
\* the search to the fallback
MongoEmbedDone(ok) ==
    /\ spc = "m_embed"
    /\ IF ok
       THEN spc' = "m_vector" /\ UNCHANGED <<tried, tierOut, result>>
       ELSE StartFallback(1, "error")
    /\ UNCHANGED <<storeType, via>>
    /\ UNCHANGED <<varsRot, varsStore, varsChat, varsRest>>

\* mongodb_vectorstore.py:147-172  the $vectorSearch aggregation is over
MongoVectorDone(ans) ==
    /\ spc = "m_vector"
    /\ LET documents ==
               Hits([i \in 1..Len(ans.scores) |->
                        VectorDistance(ans.scores[i])], 1)
       IN IF ans.err = "none" /\ AfterVector(documents) = "return"
          THEN Return(1, Classify(ans), documents)
          ELSE StartFallback(1, Classify(ans))
    /\ UNCHANGED <<storeType, via>>
    /\ UNCHANGED <<varsRot, varsStore, varsChat, varsRest>>

\* mongodb_vectorstore.py:180-211  the $text query is over
MongoTextDone(ans) ==
    /\ spc = "m_text"
    /\ LET documents ==
               Hits([i \in 1..Len(ans.scores) |->
                        TextDistance(ans.scores[i])], 2)
       IN IF ans.err = "none" /\ AfterText(ans.scores) = "return"
          THEN Return(2, Classify(ans), documents)
          ELSE StartRegex(Classify(ans))
    /\ UNCHANGED <<storeType, via>>
    /\ UNCHANGED <<varsRot, varsStore, varsChat, varsRest>>

\* mongodb_vectorstore.py:211-229  the $regex query is over: its matches get
\* the neutral distance; an exception gives the empty list
MongoRegexDone(ans) ==
    /\ spc = "m_regex"
    /\ LET documents ==
               Hits([i \in 1..Len(ans.scores) |-> NeutralDistance], 3)
       IN Return(3, Classify(ans), documents)
    /\ UNCHANGED <<storeType, via>>
    /\ UNCHANGED <<varsRot, varsStore, varsChat, varsRest>>

\* zilliz_vectorstore.py:175-215  the embedding of the query is over; load,
\* search and formatting follow without another await; any exception gives
\* the empty list
ZillizSearchDone(ans) ==
    /\ spc = "z_embed"
    /\ spc' = "done"
    /\ result' = [kind |-> "list",
                  hits |-> IF ans.err = "none"
                           THEN Hits([i \in 1..Len(ans.scores) |->
                                         CosineDistance(ans.scores[i])], 0)
                           ELSE <<>>]
    /\ UNCHANGED <<storeType, via, tried, tierOut>>
    /\ UNCHANGED <<varsRot, varsStore, varsChat, varsRest>>

NextSearch ==
    \/ \E v \in {"VectorStore", "backend"} : SearchBegin(v)
    \/ \E ok \in BOOLEAN : WrapperEmbedDone(ok)
    \/ \E ok \in BOOLEAN : MongoEmbedDone(ok)
    \/ \E ans \in Answers(VectorScores) : MongoVectorDone(ans)
    \/ \E ans \in Answers(TextScores) : MongoTextDone(ans)
    \/ \E ans \in Answers({0}) : MongoRegexDone(ans)
    \/ \E ans \in ZillizAnswers : ZillizSearchDone(ans)

SpecSearch ==
    InitSearch /\ [][NextSearch]_vars

\* The thread that runs func finishes: every dispatched attempt returns or
\* raises, and the event loop resumes the coroutine that awaits it.
Resume(p) ==
    \/ \E more \in BOOLEAN : FuncReturns(p, more)
    \/ \E m \in Messages : FuncFails(p, m)

FairSpecRot ==
    InitRot /\ [][NextRot]_vars /\ \A p \in Callers : WF_vars(Resume(p))

(***************************************************************************)
(* Claims about key rotation                                               *)
(***************************************************************************)

\* C1: one call through _with_key_rotation with the default limit runs the
\* remote function at most N times (N the pool size), so get_embeddings makes
\* at most N attempts for each text, and every call that is in flight ends,
\* by returning or by raising.
C1_AtMostNAttempts ==
    \A p \in Callers :
        /\ calls[p] <= nKeys
        /\ attempts[p] <= nKeys
        /\ pc[p] = "awaiting" => attempts[p] < nKeys

C1_BoundedAndTerminates ==
    /\ []C1_AtMostNAttempts
    /\ \A p \in Callers : (pc[p] = "awaiting") ~> (pc[p] = "done")

\* C1 witness: a call on a pool of at least two keys ended after every one of
\* its N attempts failed with a rotatable error.
C1_Witness ==
    \E p \in Callers :
        /\ nKeys >= 2
        /\ pc[p] = "done"
        /\ outcome[p] = "exhausted"
        /\ calls[p] = nKeys

\* C2: when all N attempts of a call failed with rotatable errors the call
\* has ended by raising the error of its last (Nth) attempt; it has not
\* returned a value and has not raised the error of an earlier attempt.
C2_ExhaustionRaisesLastError ==
    \A p \in Callers :
        (client = "ready" /\ attempts[p] = nKeys) =>
            /\ pc[p] = "done"
            /\ outcome[p] = "exhausted"
            /\ raised[p] # NoError
            /\ raised[p].attempt = nKeys
            /\ raised[p].msg \cap RotatableTokens # {}

\* C2 witness: a call on a pool of three keys was exhausted.
C2_Witness ==
    \E p \in Callers :
        /\ nKeys = 3
        /\ outcome[p] = "exhausted"
        /\ raised[p].attempt = 3

\* C3: a call that saw m < N rotatable failures and then a success, with no
\* rotation by another caller, has returned the result (no error), and the
\* active index is (start + m) mod N; it stays there while later calls begin.
C3_SuccessAfterRotations ==
    \A p \in Callers :
        (outcome[p] = "ok" /\ quiet[p]) =>
            /\ pc[p] = "done"
            /\ raised[p] = NoError
            /\ attempts[p] < nKeys
            /\ keyIndex = (startIdx[p] + attempts[p]) % nKeys

\* C3 witness: pool [k1, k2], a quota failure on k1, success on k2, final
\* index 1, and a later call has begun on the client.
C3_Witness ==
    \E p \in Callers : \E q \in Callers \ {p} :
        /\ nKeys = 2
        /\ outcome[p] = "ok"
        /\ quiet[p]
        /\ startIdx[p] = 0
        /\ attempts[p] = 1
        /\ keyIndex = 1
        /\ pc[q] = "awaiting"
        /\ startIdx[q] = 1

\* A call whose last failure carried a message with none of the rotatable
\* patterns
C4_NonRotatableFailure(p) ==
    /\ last_error[p] # NoError
    /\ last_error[p].msg \cap RotatableTokens = {}

\* C4 as stated: after a non-rotatable failure the active index is the one
\* the call started with.
C4_IndexAsBeforeCall ==
    \A p \in Callers :
        (C4_NonRotatableFailure(p) /\ quiet[p]) => keyIndex = startIdx[p]

\* C4 (amended): a failure whose message has none of the rotatable patterns
\* ends the call at once with that very error: the remote function is not
\* invoked again, the failing step does not rotate, and the index is the one
\* the failing attempt ran under, (start + earlier rotatable failures) mod N.
C4_State ==
    \A p \in Callers :
        C4_NonRotatableFailure(p) =>
            /\ pc[p] = "done"
            /\ outcome[p] = "immediate"
            /\ raised[p] = last_error[p]
            /\ raised[p].attempt = calls[p]
            /\ calls[p] = attempts[p] + 1
            /\ quiet[p] => keyIndex = (startIdx[p] + attempts[p]) % nKeys

C4_Step ==
    \A p \in Callers :
        (outcome[p] # "immediate" /\ outcome'[p] = "immediate") =>
            /\ keyIndex' = keyIndex
            /\ rotations' = rotations
            /\ calls'[p] = calls[p]
            /\ attempts'[p] = attempts[p]

C4_NonRotatablePropagates ==
    []C4_State /\ [][C4_Step]_vars

\* C4 witness: a non-rotatable failure on the second attempt of a call.
C4_Witness ==
    \E p \in Callers :
        /\ C4_NonRotatableFailure(p)
        /\ outcome[p] = "immediate"
        /\ attempts[p] = 1
        /\ quiet[p]
        /\ keyIndex # startIdx[p]

\* C5: a constructed client has a non-empty pool and an index in 0..N-1;
\* the index changes only by a rotation, and then to (index + 1) mod N.
C5_State ==
    client = "ready" => (nKeys >= 1 /\ keyIndex \in 0..(nKeys - 1))

C5_Step ==
    /\ keyIndex' # keyIndex =>
          (keyIndex' = (keyIndex + 1) % nKeys /\ rotations' = rotations + 1)
    /\ rotations' = rotations => keyIndex' = keyIndex
    /\ rotations' # rotations => keyIndex' = (keyIndex + 1) % nKeys

C5_IndexInvariant ==
    []C5_State /\ [][C5_Step]_vars

\* C5 witness: the index has wrapped round a pool of three keys.
C5_Witness ==
    /\ client = "ready"
    /\ nKeys = 3
    /\ rotations = 4
    /\ keyIndex = 1

\* C6: with concurrent failing calls every rotation is one step of the shared
\* index: the index and every index a caller dispatched under are in range,
\* and k rotations have advanced the index by exactly k mod N.
C6_AtomicRotation ==
    client = "ready" =>
        /\ keyIndex \in 0..(nKeys - 1)
        /\ keyIndex = rotations % nKeys
        /\ \A p \in Callers :
              pc[p] # "idle" => usedKey[p] \in 0..(nKeys - 1)

\* C6 witness: two calls in flight at once have both rotated.
C6_Witness ==
    \E p \in Callers : \E q \in Callers \ {p} :
        /\ nKeys = 3
        /\ pc[p] = "awaiting" /\ pc[q] = "awaiting"
        /\ attempts[p] >= 1 /\ attempts[q] >= 1
        /\ ~quiet[p] /\ ~quiet[q]

(***************************************************************************)
(* Claims about similarity search                                          *)
(***************************************************************************)
C7_IsPrefix(a, b) ==
    /\ Len(a) <= Len(b)
    /\ \A i \in 1..Len(a) : a[i] = b[i]

C7_InTried(t) ==
    \E i \in 1..Len(tried) : tried[i] = t

\* C7: the document-store search consults vector, full-text and regex search
\* in this order and each at most once; tier 2 only after tier 1 erred or
\* was empty, tier 3 only after tier 2 also erred or was empty; a tier with
\* hits is the last one consulted and its hits are what the search returns.
C7_TierOrder ==
    /\ C7_IsPrefix(tried, <<1, 2, 3>>)
    /\ C7_InTried(2) => tierOut[1] \in {"empty", "error"}
    /\ C7_InTried(3) => tierOut[2] \in {"empty", "error"}
    /\ \A t \in Tiers :
          tierOut[t] = "hits" =>
              /\ tried[Len(tried)] = t
              /\ spc = "done"
              /\ result.kind = "list"
              /\ result.hits # <<>>
              /\ \A i \in 1..Len(result.hits) : result.hits[i].tier = t
    /\ (storeType = "mongodb" /\ result.kind = "list" /\ result.hits # <<>>)
          => \E t \in Tiers : tierOut[t] = "hits"

\* C7 witness: tier 1 erred, tier 2 was empty, and the regex hits of tier 3
\* were returned.
C7_Witness ==
    /\ tried = <<1, 2, 3>>
    /\ tierOut = <<"error", "empty", "hits">>
    /\ spc = "done"
    /\ Len(result.hits) = 2

\* C8: a search through VectorStore with the document-store backend gives
\* its caller a list, never an exception, and the list is empty exactly when
\* no tier had a hit.
C8_NeverRaises ==
    (storeType = "mongodb" /\ via = "VectorStore" /\ spc = "done") =>
        /\ result.kind = "list"
        /\ result.hits = <<>> <=> \A t \in Tiers : tierOut[t] # "hits"

\* C9: every result of every backend and tier has a distance in [0, 1].
C9_DistanceInUnitInterval ==
    \A i \in 1..Len(result.hits) :
        /\ 0 <= result.hits[i].distance
        /\ result.hits[i].distance <= One

\* C10: with the ANN backend selected a search gives its caller the hits or,
\* on any error, the empty list; it does not raise and consults no tier.
C10_AnnNeverRaises ==
    (storeType = "zilliz" /\ spc = "done") =>
        /\ result.kind = "list"
        /\ tried = <<>>

(***************************************************************************)
(* The stored chunks: ingest, delete, listing and search by content        *)
(* A collection is described by the number of chunk records under each     *)
(* file_id and the order in which the file_ids were first inserted.  One   *)
(* probe query q is followed: hasq[f] says that exactly one chunk of f     *)
(* has q as a substring of its content.                                    *)
(***************************************************************************)
\* zilliz_vectorstore.py:359  limit=10000 of the query behind the listing
QueryLimit == 10000

\* orchestrator.py:85-88  len(chunks), the documents that process_file hands
\* to add_documents for one text
ChunkCounts ==
    {1, QueryLimit}

\* zilliz_vectorstore.py:347  valid_order_fields
OrderFields ==
    {"created_at", "filename", "file_id"}

\* zilliz_vectorstore.py:352  the directions that are taken as given
Directions ==
    {"asc", "desc"}

\* zilliz_vectorstore.py:348-349  an unknown field is replaced
ValidOrderBy(order_by) ==
    IF order_by \in OrderFields THEN order_by ELSE "created_at"

\* zilliz_vectorstore.py:352-353  an unknown direction is replaced
ValidDirection(order_direction) ==
    IF order_direction \in Directions THEN order_direction ELSE "desc"

\* file_route.py:61-75  the lower-cased name of the upload stored under
\* file_id f: uploads 1 and 2 carry the same name, later ones another
FileNameKey(f) ==
    (f + 1) \div 2

\* position of f in the sequence s of distinct file_ids
IndexIn(s, f) ==
    CHOOSE i \in 1..Len(s) : s[i] = f

\* zilliz_vectorstore.py:378-383  the key the listing sorts by; created_at
\* grows with the order of insertion
SortKey(order_by, f) ==
    IF order_by = "filename" THEN FileNameKey(f)
    ELSE IF order_by = "file_id" THEN f
    ELSE IndexIn(order, f)

\* x sorts strictly before y
StrictBefore(order_by, direction, x, y) ==
    IF direction = "desc"
    THEN SortKey(order_by, x) > SortKey(order_by, y)
    ELSE SortKey(order_by, x) < SortKey(order_by, y)

\* x put into the sorted sequence s behind everything it does not strictly
\* precede (list.sort is stable, also with reverse=True)
InsertSorted(order_by, direction, x, s) ==
    LET later == {i \in 1..Len(s) : StrictBefore(order_by, direction, x, s[i])}
        at == IF later = {} THEN Len(s) + 1
              ELSE CHOOSE i \in later : \A j \in later : i <= j
    IN SubSeq(s, 1, at - 1) \o <<x>> \o SubSeq(s, at, Len(s))

\* zilliz_vectorstore.py:374-383  files_list.sort(key=..., reverse=...)
RECURSIVE SortFiles(_, _, _)
SortFiles(order_by, direction, files_list) ==
    IF files_list = <<>> THEN <<>>
    ELSE InsertSorted(order_by, direction, files_list[Len(files_list)],
                      SortFiles(order_by, direction,
                                SubSeq(files_list, 1, Len(files_list) - 1)))

\* zilliz_vectorstore.py:387  (total_count + page_size - 1) // page_size
TotalPages(total_count, page_size) ==
    (total_count + page_size - 1) \div page_size

Min(a, b) ==
    IF a < b THEN a ELSE b

\* zilliz_vectorstore.py:388-392  files_list[start_idx:end_idx]
PageSlice(files_list, page, page_size) ==
    LET start_idx == (page - 1) * page_size
        end_idx == start_idx + page_size
    IN SubSeq(files_list, start_idx + 1, Min(end_idx, Len(files_list)))

\* file_ids that have chunks stored
StoredFiles ==
    {f \in Files : rows[f] > 0}

\* records in the collection under the file_ids of S
RECURSIVE SumRows(_)
SumRows(S) ==
    IF S = {} THEN 0
    ELSE LET f == CHOOSE x \in S : TRUE IN rows[f] + SumRows(S \ {f})

\* zilliz_vectorstore.py:356-360  the file_ids among the records that
\* collection.query(expr="", limit=10000) returns: the store picks which
\* 10000 records it returns when it holds more
VisibleSets ==
    LET n == Min(SumRows(StoredFiles), QueryLimit)
    IN {S \in SUBSET StoredFiles : Cardinality(S) <= n /\ n <= SumRows(S)}

\* zilliz_vectorstore.py:363-374  one entry for each file_id seen, in the
\* order of the records
Grouped(seen) ==
    SelectSeq(order, LAMBDA f : f \in seen)

\* the store object exists: Orchestrator.__init__ has built VectorStore()
Built ==
    last.op # "none"

\* the collection as the program finds it when it starts: what earlier runs
\* left in it, and whether its embedding field has self.dimension
\* (zilliz_vectorstore.py:61-74)
InitStore ==
    /\ RotReady
    /\ storeType \in {"mongodb", "zilliz"}
    /\ SearchIdle
    /\ rows \in [Files -> {0} \cup ChunkCounts]
    /\ hasq \in [Files -> BOOLEAN]
    /\ \A f \in Files : hasq[f] => rows[f] > 0
    /\ order \in [1..Cardinality(StoredFiles) -> StoredFiles]
    /\ \A i, j \in DOMAIN order : i < j => order[i] < order[j]
    /\ dim \in IF storeType = "zilliz" THEN {"match", "mismatch"}
               ELSE {"match"}
    /\ last = NoOp
    /\ lst = NoListing
    /\ ChatIdle
    /\ RestIdle

\* mutation of DropsCollection: the collection is dropped whatever its
\* dimension
DropsCollectionAlways ==
    storeType = "zilliz"

\* zilliz_vectorstore.py:74-80  the collection exists and the dimensions
\* differ: utility.drop_collection
DropsCollection ==
    storeType = "zilliz" /\ dim = "mismatch"

\* vectorstore.py:19-28, zilliz_vectorstore.py:20-118  VectorStore() is
\* built: the Zilliz backend keeps the collection it finds or drops it and
\* creates an empty one; the MongoDB backend only creates indexes
ConstructStore ==
    /\ IF DropsCollection
       THEN /\ rows' = [f \in Files |-> 0]
            /\ hasq' = [f \in Files |-> FALSE]
            /\ order' = <<>>
       ELSE UNCHANGED <<rows, hasq, order>>
    /\ dim' = "match"
    /\ last' = [NoOp EXCEPT !.op = "construct"]
    /\ lst' = NoListing
    /\ UNCHANGED <<varsRot, varsSearch, varsChat, varsRest>>

\* orchestrator.py:79-101, vectorstore.py:56-80, mongodb_vectorstore.py:76-113,
\* zilliz_vectorstore.py:120-169  process_file under a new file_id
\* (file_route.py:63): the text is split into n chunks, hq says whether one
\* of them contains q, ok whether the embeddings were obtained.  The Zilliz
\* backend raises NameError at line 148 (ZoneInfo is not imported) before it
\* inserts anything.
Ingest(f, n, hq, ok) ==
    /\ Built
    /\ rows[f] = 0
    /\ LET succeeded == storeType = "mongodb" /\ ok
       IN /\ rows' = IF succeeded THEN [rows EXCEPT ![f] = n] ELSE rows
          /\ hasq' = IF succeeded THEN [hasq EXCEPT ![f] = hq] ELSE hasq
          /\ order' = IF succeeded THEN Append(order, f) ELSE order
          /\ last' = [NoOp EXCEPT !.op = "ingest", !.file = f,
                         !.status = IF succeeded THEN "ok" ELSE "raise"]
    /\ lst' = NoListing
    /\ UNCHANGED <<dim, varsRot, varsSearch, varsChat, varsRest>>

\* mutation of AfterDelete: one matching record is deleted (delete_one)
AfterDeleteOne(n) ==
    IF n > 0 THEN n - 1 ELSE 0

\* mongodb_vectorstore.py:336  delete_many(filter_query),
\* zilliz_vectorstore.py:283  collection.delete(filter_expr): the records
\* left under the file_id of the filter, of n
AfterDelete(n) ==
    0

\* orchestrator.py:103-115, vectorstore.py:122-148,
\* mongodb_vectorstore.py:326-343, zilliz_vectorstore.py:270-290
\* delete_file(f): delete_by_metadata({"file_id": f})
DeleteFile(f) ==
    /\ Built
    /\ rows' = [rows EXCEPT ![f] = AfterDelete(rows[f])]
    /\ hasq' = [hasq EXCEPT ![f] = hasq[f] /\ rows'[f] > 0]
    /\ order' = SelectSeq(order, LAMBDA g : rows'[g] > 0)
    /\ last' = [NoOp EXCEPT !.op = "delete", !.file = f,
                   !.repeat = (last.op = "delete" /\ last.file = f
                               /\ last.status = "ok"),
                   !.before = rows]
    /\ lst' = NoListing
    /\ UNCHANGED <<dim, varsRot, varsSearch, varsChat, varsRest>>

\* the file_ids of up to k records of the collection, in any ranking
RecordLists ==
    {h \in UNION {[1..n -> StoredFiles] : n \in 0..MaxHits} :
        \A f \in StoredFiles :
            Cardinality({i \in DOMAIN h : h[i] = f}) <= rows[f]}

\* file_ids with a chunk whose content contains q
Containing ==
    {f \in StoredFiles : hasq[f]}

\* mongodb_vectorstore.py:207-211  find({"content": {"$regex": query}})
\* .limit(k): when q has no regex metacharacter, k of the chunks that
\* contain q, or all of them when there are fewer; any records otherwise
RegexLists(plain) ==
    IF plain
    THEN {h \in RecordLists :
             /\ Len(h) = Min(MaxHits, Cardinality(Containing))
             /\ \A i \in DOMAIN h : h[i] \in Containing
             /\ \A i, j \in DOMAIN h : i # j => h[i] # h[j]}
    ELSE RecordLists

\* mutation of HitFileId: the filename field is read instead
HitFileIdFromFilename(f) ==
    FileNameKey(f)

\* mongodb_vectorstore.py:100-102,157,196,220  result.get("file_id", ""):
\* add_documents wrote the file_id of the metadata as a top-level field
HitFileId(f) ==
    f

\* the documents made of the records h
Formatted(h) ==
    [i \in DOMAIN h |-> HitFileId(h[i])]

\* what similarity_search(q) can give on the collection as it is:
\* vectorstore.py:88-100 raises when its own embedding of q fails;
\* mongodb_vectorstore.py:115-229 returns the hits of the first tier that
\* has some ($vectorSearch and $text rank by scores the model leaves open),
\* the regex matches, or [] when the regex query raises;
\* zilliz_vectorstore.py:171-215 returns the ANN hits, or [] on any error
SearchOutcomes(plain) ==
    {[status |-> "raise", tier |-> 0, hits |-> <<>>]} \cup
    IF storeType = "mongodb"
    THEN {[status |-> "ok", tier |-> 1, hits |-> Formatted(h)] :
             h \in {x \in RecordLists : AfterVector(x) = "return"}} \cup
         {[status |-> "ok", tier |-> 2, hits |-> Formatted(h)] :
             h \in {x \in RecordLists : AfterText(x) = "return"}} \cup
         {[status |-> "ok", tier |-> 3, hits |-> Formatted(h)] :
             h \in RegexLists(plain)} \cup
         {[status |-> "ok", tier |-> 4, hits |-> <<>>]}
    ELSE {[status |-> "ok", tier |-> 0, hits |-> Formatted(h)] :
             h \in RecordLists}

\* VectorStore.similarity_search(q) for the probe query q; plain says that q
\* has no regex metacharacter.  Tier 4 stands for the regex query raising.
\* last.file keeps the file_id whose ingest ended just before the search.
SearchStore(plain) ==
    /\ Built
    /\ \E out \in SearchOutcomes(plain) :
           last' = [NoOp EXCEPT !.op = "search", !.status = out.status,
                       !.tier = out.tier, !.hits = out.hits,
                       !.plain = plain,
                       !.file = IF last.op = "ingest" /\ last.status = "ok"
                                THEN last.file ELSE 0]
    /\ lst' = NoListing
    /\ UNCHANGED <<rows, hasq, order, dim>>
    /\ UNCHANGED <<varsRot, varsSearch, varsChat, varsRest>>

\* file_route.py:88-114, zilliz_vectorstore.py:340-400  the answer to
\* GET /files?page=..: the page and total_pages, when the query returned the
\* records of the file_ids in seen
ListAnswer(page, page_size, order_by, direction, seen) ==
    LET files_list == SortFiles(order_by, direction, Grouped(seen))
    IN [files |-> PageSlice(files_list, page, page_size),
        total_pages |-> TotalPages(Len(files_list), page_size)]

\* file_route.py:88-114  GET /files, page 1: a traversal starts.  The
\* VectorStore() of line 100 finds the collection the start-up left.  With
\* the MongoDB backend the route answers with a message only.
ListFirst(page_size, order_by, order_direction) ==
    /\ Built
    /\ lst.phase \notin {"paging", "last"}
    /\ IF storeType = "zilliz"
       THEN \E seen \in VisibleSets :
               LET ob == ValidOrderBy(order_by)
                   dir == ValidDirection(order_direction)
                   ans == ListAnswer(1, page_size, ob, dir, seen)
               IN lst' = [phase |-> IF 1 >= ans.total_pages THEN "last"
                                    ELSE "paging",
                          order_by |-> ob, direction |-> dir,
                          page_size |-> page_size, page |-> 1,
                          total_pages |-> ans.total_pages,
                          acc |-> ans.files, beyond |-> <<>>]
       ELSE lst' = [NoListing EXCEPT !.phase = "unsupported"]
    /\ last' = [NoOp EXCEPT !.op = "list"]
    /\ UNCHANGED <<rows, hasq, order, dim>>
    /\ UNCHANGED <<varsRot, varsSearch, varsChat, varsRest>>

\* GET /files for the next page with the same page_size and ordering; after
\* page total_pages, one more page is asked for
ListNext ==
    /\ lst.phase \in {"paging", "last"}
    /\ \E seen \in VisibleSets :
          LET page == lst.page + 1
              ans == ListAnswer(page, lst.page_size, lst.order_by,
                                lst.direction, seen)
          IN lst' = IF lst.phase = "paging"
                    THEN [lst EXCEPT
                             !.phase = IF page >= ans.total_pages
                                       THEN "last" ELSE "paging",
                             !.page = page,
                             !.total_pages = ans.total_pages,
                             !.acc = lst.acc \o ans.files]
                    ELSE [lst EXCEPT !.phase = "done", !.page = page,
                                     !.beyond = ans.files]
    /\ last' = [NoOp EXCEPT !.op = "list"]
    /\ UNCHANGED <<rows, hasq, order, dim>>
    /\ UNCHANGED <<varsRot, varsSearch, varsChat, varsRest>>

NextStore ==
    \/ ConstructStore
    \/ \E f \in Files, n \in ChunkCounts, hq, ok \in BOOLEAN :
           Ingest(f, n, hq, ok)
    \/ \E f \in Files : DeleteFile(f)
    \/ \E plain \in BOOLEAN : SearchStore(plain)
    \/ \E ps \in 1..MaxPageSize, ob \in OrderFields \cup {"size"},
          d \in Directions \cup {"up"} : ListFirst(ps, ob, d)
    \/ ListNext

SpecStore ==
    InitStore /\ [][NextStore]_vars

(***************************************************************************)
(* Claims about the stored chunks                                          *)
(***************************************************************************)

\* C11: for any page_size >= 1 and any stored files, the pages 1..total_pages
\* of the listing, asked for with one ordering and put one after the other,
\* are the full ordered listing with every file exactly once, total_pages is
\* ceil(number of files / page_size), and the page after total_pages is
\* empty.
C11_PagesCoverListing ==
    /\ lst.phase \in {"last", "done"} =>
          /\ lst.acc = SortFiles(lst.order_by, lst.direction, order)
          /\ lst.total_pages =
                 TotalPages(Cardinality(StoredFiles), lst.page_size)
    /\ lst.phase = "done" => lst.beyond = <<>>

\* the search follows a successful ingest of a text with q in one chunk
C12_AfterIngest ==
    /\ last.op = "search"
    /\ last.file # 0
    /\ hasq[last.file]

C13_DeleteIdempotent ==
    (last.op = "delete" /\ (last.repeat \/ last.before[last.file] = 0)) =>
        /\ last.status = "ok"
        /\ rows = last.before

\* delete_file(f) called again right after delete_file(f), other chunks
\* being stored
C13_Witness ==
    /\ last.op = "delete"
    /\ last.repeat
    /\ last.status = "ok"
    /\ StoredFiles # {}

\* some file_id has fewer chunks after the step
C14_Decreases ==
    \E f \in Files : rows'[f] < rows[f]

\* the step is delete_file(f): the chunks of f are gone, the others stay
C14_DeleteEffect ==
    /\ rows'[last'.file] = 0
    /\ \A g \in Files \ {last'.file} :
           rows'[g] = rows[g] /\ hasq'[g] = hasq[g]

\* C14 as stated: delete_file is the only operation that removes chunks;
\* construction, add, search and listing never decrease the stored chunks.
C14_OnlyDeleteRemoves ==
    [][C14_Decreases => last'.op = "delete"]_vars

\* C14, amended: delete_file(f) removes every chunk whose file_id is f and
\* leaves the others as they are; the one other step that removes chunks is
\* the construction of the Zilliz store on a collection whose embedding
\* dimension differs from the configured one, which drops all of them;
\* ingest, search and listing never decrease the stored chunks.
C14_DeleteFrame ==
    [][/\ last'.op = "delete" => C14_DeleteEffect
       /\ C14_Decreases =>
             \/ last'.op = "delete"
             \/ /\ last'.op = "construct"
                /\ storeType = "zilliz"
                /\ dim = "mismatch"
                /\ rows' = [f \in Files |-> 0]]_vars

\* delete_file(f) has removed the chunks of f and another file is stored
C14_Witness ==
    /\ last.op = "delete"
    /\ last.before[last.file] > 0
    /\ rows[last.file] = 0
    /\ \E g \in Files : rows[g] > 0

(***************************************************************************)
(* ChatService: sessions and messages in MongoDB                           *)
(* Time is counted in hours.  The user ids are 0 for None, 1 for the sub   *)
(* of a valid token and 10 + n for the n-th "temp_user_<uuid>".            *)
(***************************************************************************)
\* sessions created
MaxSessions == 2
\* messages added
MaxMessages == 2
\* advances of the clock
MaxTicks == 2
\* advances of the clock after which sessions are still created
MaxCreateTicks == 0
\* the hour at which the program starts
StartHour == 3

\* chat_service.py:37  timedelta(hours=5)
TemporaryHours == 5

\* chat_service.py:40  timedelta(days=15), in hours
PersistentHours == 360

\* chat_service.py:81  limit: int = 50
DefaultLimit == 50

\* models/chat.py:55  expires_at: Optional[datetime] = None
Unset == -1

\* chat_service.py:184,189  the document {"$inc": n} stored as a field value
IncDocument == -2

\* the sub of a valid token
TokenUser == 1

\* chat_route.py:43  "temp_user_" + str(uuid.uuid4()), a new one each time
TempUser(n) ==
    10 + n

\* how far one advance of the clock goes
Jumps ==
    {1, TemporaryHours, PersistentHours}

\* chat_service.py:35-40  expires_at of a new session
ExpiresAt(now, is_temporary) ==
    IF is_temporary THEN now + TemporaryHours ELSE now + PersistentHours

\* chat_service.py:42-54  session_doc
NewSession(user_id, is_temporary, now) ==
    [user_id |-> user_id, is_temporary |-> is_temporary, is_active |-> TRUE,
     created_at |-> now,
     expires_at |-> ExpiresAt(now, is_temporary),
     message_count |-> 0, total_tokens |-> 0, closed_once |-> FALSE]

\* a session document written before expires_at existed
LegacySession ==
    [NewSession(TokenUser, FALSE, StartHour) EXCEPT !.expires_at = Unset]

\* mutation of RouteIsTemporary: the value of the request body is kept
RouteIsTemporaryAsSupplied(is_temp, supplied) ==
    supplied = "true"

\* chat_route.py:72-76  session_data.is_temporary = is_temp
RouteIsTemporary(is_temp, supplied) ==
    is_temp

\* chat_service.py:34  session_data.is_temporary if session_data else False;
\* models/chat.py:36  the field defaults to False
ServiceIsTemporary(supplied) ==
    supplied = "true"

\* chat_service.py:86-93  the filter of get_user_sessions at time now
Listed(doc, user_id, now) ==
    /\ doc.user_id = user_id
    /\ doc.is_active
    /\ doc.expires_at > now \/ doc.expires_at = Unset

\* models/chat.py:55-56  ChatSession(**session_doc) accepts the document:
\* message_count and total_tokens are declared int
Validates(doc) ==
    doc.message_count # IncDocument /\ doc.total_tokens # IncDocument

\* chat_service.py:85-94  the ids among 1..n that match the filter.  The
\* documents carry no updated_at in this model: the order that
\* .sort("updated_at", -1) gives the result is left out, the ids come in
\* the order of creation.
RECURSIVE MatchingSessions(_, _, _)
MatchingSessions(n, user_id, now) ==
    IF n = 0 THEN <<>>
    ELSE IF Listed(sessions[n], user_id, now)
         THEN Append(MatchingSessions(n - 1, user_id, now), n)
         ELSE MatchingSessions(n - 1, user_id, now)

\* chat_service.py:81-106  get_user_sessions(user_id) at time now: the first
\* max_count matches (the limit), or [] when a document among them is not a
\* ChatSession
UserSessions(user_id, now, max_count) ==
    LET found == MatchingSessions(Len(sessions), user_id, now)
        page == SubSeq(found, 1, Min(max_count, Len(found)))
    IN IF \A i \in DOMAIN page : Validates(sessions[page[i]])
       THEN page ELSE <<>>

\* chat_service.py:204  limit: int = 100
DefaultMessageLimit == 100

\* mutation of MsgBefore: the messages are sorted newest first
MsgBeforeDescending(x, y) ==
    x.created_at > y.created_at

\* chat_service.py:209  .sort("created_at", 1): x comes strictly before y
MsgBefore(x, y) ==
    x.created_at < y.created_at

\* x put into the sequence s of messages sorted by created_at, oldest first,
\* behind the messages that are not newer
InsertByCreated(x, s) ==
    LET later == {i \in 1..Len(s) : MsgBefore(x, s[i])}
        at == IF later = {} THEN Len(s) + 1
              ELSE CHOOSE i \in later : \A j \in later : i <= j
    IN SubSeq(s, 1, at - 1) \o <<x>> \o SubSeq(s, at, Len(s))

\* chat_service.py:207-209  find({"session_id": session_id})
\* .sort("created_at", 1) over the first n messages of the collection
RECURSIVE SortedMessages(_, _)
SortedMessages(n, session_id) ==
    IF n = 0 THEN <<>>
    ELSE IF messages[n].session_id = session_id
         THEN InsertByCreated(messages[n], SortedMessages(n - 1, session_id))
         ELSE SortedMessages(n - 1, session_id)

\* chat_service.py:204-221  get_session_messages(session_id)
SessionMessages(session_id, max_count) ==
    LET found == SortedMessages(Len(messages), session_id)
    IN SubSeq(found, 1, Min(max_count, Len(found)))

\* mutation of StatsUpdate: the update also marks the session active
StatsUpdateReactivates(doc, now, tokens_used) ==
    [doc EXCEPT !.message_count = IncDocument, !.is_active = TRUE]

\* chat_service.py:183-194  update_one({"_id": session_id}, {"$set":
\* {"message_count": {"$inc": 1}, "updated_at": now, and with tokens_used
\* "total_tokens": {"$inc": tokens_used}}}) on a server that stores the
\* documents {"$inc": n} as the values of the fields
StatsUpdate(doc, now, tokens_used) ==
    [doc EXCEPT !.message_count = IncDocument,
                !.total_tokens = IF tokens_used # 0 THEN IncDocument ELSE @]

\* the session and message collections when the program starts: empty, or
\* with one session document of an earlier version; the server either
\* stores a $set value with a $-prefixed key or rejects the update
InitChat ==
    /\ RotReady
    /\ storeType = "mongodb"
    /\ SearchIdle
    /\ StoreIdle
    /\ server \in {"stores", "rejects"}
    /\ clock = StartHour
    /\ ticks = 0
    /\ sessions \in {<<>>, <<LegacySession>>}
    /\ messages = <<>>
    /\ wr = [p \in Callers |-> IdleWriter]
    /\ slast = NoChatOp
    /\ RestIdle

\* chat_route.py:28-92  POST /chat/new-session.  auth: no token, a token
\* that fails verification, a valid token, an expired token (401), a token
\* without sub (500); supplied: is_temporary of the request body
CreateViaRoute(auth, supplied) ==
    /\ Len(sessions) < MaxSessions
    /\ ticks <= MaxCreateTicks
    /\ IF auth \in {"expired", "nosub"}
       THEN /\ slast' = [NoChatOp EXCEPT !.op = "create", !.via = "route",
                            !.status = "error", !.auth = auth,
                            !.supplied = supplied]
            /\ UNCHANGED sessions
       ELSE LET is_temp == auth # "valid"
                sid == Len(sessions) + 1
                user_id == IF is_temp THEN TempUser(sid) ELSE TokenUser
            IN /\ sessions' =
                      Append(sessions,
                             NewSession(user_id,
                                        RouteIsTemporary(is_temp, supplied),
                                        clock))
               /\ slast' = [NoChatOp EXCEPT !.op = "create", !.via = "route",
                               !.sid = sid, !.user = user_id, !.auth = auth,
                               !.supplied = supplied]
    /\ UNCHANGED <<server, clock, ticks, messages, wr>>
    /\ UNCHANGED <<varsRot, varsSearch, varsStore, varsRest>>

\* chat_service.py:26-64  ChatService.create_session(user_id, session_data)
\* called by itself (test_auth_system.py:98); supplied = "absent" stands for
\* session_data = None
CreateViaService(user_id, supplied) ==
    /\ Len(sessions) < MaxSessions
    /\ ticks <= MaxCreateTicks
    /\ sessions' = Append(sessions,
                          NewSession(user_id, ServiceIsTemporary(supplied),
                                     clock))
    /\ slast' = [NoChatOp EXCEPT !.op = "create", !.via = "service",
                    !.sid = Len(sessions) + 1, !.user = user_id,
                    !.supplied = supplied]
    /\ UNCHANGED <<server, clock, ticks, messages, wr>>
    /\ UNCHANGED <<varsRot, varsSearch, varsStore, varsRest>>

\* chat_service.py:81-106  get_user_sessions(user_id)
ListSessions(user_id) ==
    /\ slast' = [NoChatOp EXCEPT !.op = "list", !.user = user_id,
                    !.ids = UserSessions(user_id, clock, DefaultLimit)]
    /\ UNCHANGED <<server, clock, ticks, sessions, messages, wr>>
    /\ UNCHANGED <<varsRot, varsSearch, varsStore, varsRest>>

\* chat_service.py:108-125, chat_route.py:144-181  update_session with
\* ChatSessionUpdate.dict(exclude_unset=True); active is the is_active of
\* the request, when it has one
UpdateSession(sid, active) ==
    /\ sid \in DOMAIN sessions
    /\ sessions' = [sessions EXCEPT
                       ![sid].is_active = IF active = "unset" THEN @
                                          ELSE active = "true"]
    /\ slast' = [NoChatOp EXCEPT !.op = "update", !.sid = sid]
    /\ UNCHANGED <<server, clock, ticks, messages, wr>>
    /\ UNCHANGED <<varsRot, varsSearch, varsStore, varsRest>>

\* chat_service.py:127-139  close_session; closed_once records that a close
\* of the session has succeeded
CloseSession(sid) ==
    /\ sid \in DOMAIN sessions
    /\ sessions' = [sessions EXCEPT ![sid].is_active = FALSE,
                                    ![sid].closed_once = TRUE]
    /\ slast' = [NoChatOp EXCEPT !.op = "close", !.sid = sid]
    /\ UNCHANGED <<server, clock, ticks, messages, wr>>
    /\ UNCHANGED <<varsRot, varsSearch, varsStore, varsRest>>

\* chat_route.py:315-344  tokens_used of the messages a writer adds: None
\* (0) with the messages of the user, a count with the generated answers
TokensOf(p) ==
    IF p = 1 THEN 0 ELSE 3

\* chat_service.py:143-178  add_message is entered by writer p: now is
\* read and message_doc is built
MsgBegin(p, sid, tokens_used) ==
    /\ wr[p].pc = "idle"
    /\ Len(messages) + Cardinality({q \in Callers : wr[q].pc = "stamped"})
           < MaxMessages
    /\ wr' = [wr EXCEPT ![p] = [pc |-> "stamped", session_id |-> sid,
                                now |-> clock, tokens_used |-> tokens_used]]
    /\ slast' = NoChatOp
    /\ UNCHANGED <<server, clock, ticks, sessions, messages>>
    /\ UNCHANGED <<varsRot, varsSearch, varsStore, varsRest>>

\* chat_service.py:180-202  insert_one(message_doc), then the update of the
\* session's statistics: it matches no document, or the server stores the
\* $set values, or it rejects the update and add_message raises.  The two
\* writes are one step: no operation of the model reads between them.
MsgInsert(p) ==
    /\ wr[p].pc = "stamped"
    /\ messages' = Append(messages,
                          [session_id |-> wr[p].session_id,
                           created_at |-> wr[p].now,
                           tokens_used |-> wr[p].tokens_used])
    /\ LET sid == wr[p].session_id
       IN IF sid \notin DOMAIN sessions
          THEN /\ UNCHANGED sessions
               /\ slast' = [NoChatOp EXCEPT !.op = "add", !.sid = sid]
          ELSE IF server = "stores"
          THEN /\ sessions' =
                      [sessions EXCEPT
                          ![sid] = StatsUpdate(@, wr[p].now,
                                               wr[p].tokens_used)]
               /\ slast' = [NoChatOp EXCEPT !.op = "add", !.sid = sid]
          ELSE /\ UNCHANGED sessions
               /\ slast' = [NoChatOp EXCEPT !.op = "add", !.sid = sid,
                               !.status = "raise"]
    /\ wr' = [wr EXCEPT ![p] = IdleWriter]
    /\ UNCHANGED <<server, clock, ticks>>
    /\ UNCHANGED <<varsRot, varsSearch, varsStore, varsRest>>

\* chat_service.py:204-221  get_session_messages(session_id)
ListMessages(sid) ==
    /\ slast' = [NoChatOp EXCEPT !.op = "messages", !.sid = sid,
                    !.msgs = SessionMessages(sid, DefaultMessageLimit)]
    /\ UNCHANGED <<server, clock, ticks, sessions, messages, wr>>
    /\ UNCHANGED <<varsRot, varsSearch, varsStore, varsRest>>

\* time passes
Tick(d) ==
    /\ ticks < MaxTicks
    /\ clock' = clock + d
    /\ ticks' = ticks + 1
    /\ slast' = NoChatOp
    /\ UNCHANGED <<server, sessions, messages, wr>>
    /\ UNCHANGED <<varsRot, varsSearch, varsStore, varsRest>>

\* the user ids that own a session, and the token user
KnownUsers ==
    {TokenUser} \cup {sessions[i].user_id : i \in DOMAIN sessions}

\* the life cycle of sessions and their listing, without messages
NextChat ==
    \/ \E auth \in {"none", "invalid", "valid", "expired", "nosub"},
          supplied \in {"absent", "true", "false"} :
           CreateViaRoute(auth, supplied)
    \/ \E user_id \in {0, TokenUser},
          supplied \in {"absent", "true", "false"} :
           CreateViaService(user_id, supplied)
    \/ \E user_id \in KnownUsers : ListSessions(user_id)
    \/ \E sid \in DOMAIN sessions, active \in {"unset", "true", "false"} :
           UpdateSession(sid, active)
    \/ \E sid \in DOMAIN sessions : CloseSession(sid)
    \/ \E d \in Jumps : Tick(d)

SpecChat ==
    InitChat /\ [][NextChat]_vars

\* messages of concurrent writers on the sessions of one user
NextMsg ==
    \/ \E supplied \in {"true", "false"} :
           CreateViaService(TokenUser, supplied)
    \/ \E sid \in DOMAIN sessions : CloseSession(sid)
    \/ \E p \in Callers, sid \in DOMAIN sessions :
           MsgBegin(p, sid, TokensOf(p))
    \/ \E p \in Callers : MsgInsert(p)
    \/ \E sid \in DOMAIN sessions : ListMessages(sid)
    \/ ListSessions(TokenUser)
    \/ Tick(TemporaryHours)

SpecMsg ==
    InitChat /\ [][NextMsg]_vars

(***************************************************************************)
(* Claims about chat sessions and messages                                 *)
(***************************************************************************)

\* the ids that the last get_user_sessions returned
C15_Returned ==
    {slast.ids[i] : i \in DOMAIN slast.ids}

\* C15: an active session is returned by its owner's get_user_sessions at
\* every time before created_at + TTL (5 hours when temporary, 15 days when
\* persistent) and at no time after it, so that a persistent session is
\* still listed when a temporary one created at the same moment no longer
\* is; a session without expires_at is never left out for expiry.
C15_ListedUntilExpiry ==
    slast.op = "list" =>
        \A i \in DOMAIN sessions :
            LET doc == sessions[i]
                ttl == IF doc.is_temporary THEN TemporaryHours
                       ELSE PersistentHours
            IN (doc.user_id = slast.user /\ doc.is_active) =>
                  /\ doc.expires_at = Unset => i \in C15_Returned
                  /\ (doc.expires_at # Unset /\ clock < doc.created_at + ttl)
                        => i \in C15_Returned
                  /\ (doc.expires_at # Unset /\ clock > doc.created_at + ttl)
                        => i \notin C15_Returned

\* the session that the last create_session made
C16_Created ==
    sessions[slast.sid]

\* a session has just been created
C16_JustCreated ==
    slast.op = "create" /\ slast.status = "ok"

\* the caller of the last create was an authenticated principal
C16_Authenticated ==
    IF slast.via = "route" THEN slast.auth = "valid" ELSE slast.user # 0

RECURSIVE C17_Count(_, _)
C17_Count(n, sid) ==
    IF n = 0 THEN 0
    ELSE C17_Count(n - 1, sid) +
         (IF messages[n].session_id = sid THEN 1 ELSE 0)

\* sum of tokens_used of those messages
RECURSIVE C17_Tokens(_, _)
C17_Tokens(n, sid) ==
    IF n = 0 THEN 0
    ELSE C17_Tokens(n - 1, sid) +
         (IF messages[n].session_id = sid THEN messages[n].tokens_used
          ELSE 0)

\* C17: after successful add_message calls, also of concurrent writers, the
\* session's message_count is the number of messages stored for it and its
\* total_tokens the sum of their tokens_used.
C17_CountsMatchMessages ==
    (/\ slast.op = "add"
     /\ slast.status = "ok"
     /\ \A p \in Callers : wr[p].pc = "idle") =>
        \A i \in DOMAIN sessions :
            /\ sessions[i].message_count = C17_Count(Len(messages), i)
            /\ sessions[i].total_tokens = C17_Tokens(Len(messages), i)

\* writer p ends an add_message in this step
C18_Adds(p) ==
    wr[p].pc = "stamped" /\ wr'[p].pc = "idle"

\* C18: add_message leaves is_active, is_temporary, expires_at, user_id and
\* created_at of every session as they are, whether the session is active,
\* closed or expired when the message is added.
C18_AddMessageFrame ==
    [][\A p \in Callers :
          C18_Adds(p) =>
              /\ DOMAIN sessions' = DOMAIN sessions
              /\ \A i \in DOMAIN sessions :
                    /\ sessions'[i].is_active = sessions[i].is_active
                    /\ sessions'[i].is_temporary = sessions[i].is_temporary
                    /\ sessions'[i].expires_at = sessions[i].expires_at
                    /\ sessions'[i].user_id = sessions[i].user_id
                    /\ sessions'[i].created_at = sessions[i].created_at]_vars

\* a message was added to a session that is closed and expired, and the
\* update of the statistics was applied
C18_Witness ==
    /\ slast.op = "add"
    /\ slast.status = "ok"
    /\ slast.sid \in DOMAIN sessions
    /\ ~sessions[slast.sid].is_active
    /\ sessions[slast.sid].expires_at <= clock
    /\ sessions[slast.sid].message_count = IncDocument

\* C19: closed is terminal: once close_session has succeeded on a session,
\* no later operation makes its is_active true again, and get_user_sessions
\* never returns it again.
C19_ClosedIsTerminal ==
    \A i \in DOMAIN sessions :
        sessions[i].closed_once =>
            /\ ~sessions[i].is_active
            /\ slast.op = "list" =>
                  \A j \in DOMAIN slast.ids : slast.ids[j] # i

\* what get_session_messages returned is of one session and in time order
C20_State ==
    slast.op = "messages" =>
        /\ \A i \in DOMAIN slast.msgs :
               /\ slast.msgs[i].session_id = slast.sid
               /\ \E n \in DOMAIN messages : messages[n] = slast.msgs[i]
        /\ \A i, j \in DOMAIN slast.msgs :
               i < j => slast.msgs[i].created_at <= slast.msgs[j].created_at

\* the stored messages stay as they are; new ones are appended
C20_Step ==
    /\ Len(messages') >= Len(messages)
    /\ SubSeq(messages', 1, Len(messages)) = messages

\* C20: get_session_messages(s) returns only messages whose session_id is s,
\* in non-decreasing order of created_at, in whatever order concurrent
\* writers inserted them; and a stored message is never changed or removed
\* by a later operation.
C20_OrderedAndAppendOnly ==
    []C20_State /\ [][C20_Step]_vars

\* two messages of one session were inserted against the order of their
\* created_at and are returned in the order of created_at
C20_Witness ==
    /\ slast.op = "messages"
    /\ Len(slast.msgs) = 2
    /\ slast.msgs[1].created_at < slast.msgs[2].created_at
    /\ Len(messages) = 2
    /\ messages[1] = slast.msgs[2]
    /\ messages[2] = slast.msgs[1]

(***************************************************************************)
(* TelegramService: in-memory sessions and the cleanup task                *)
(* Time is counted in hours.  The coroutines run on one event loop: a      *)
(* step of the model is the code between two awaits.                       *)
(***************************************************************************)
\* telegram users that write to the bot
MaxTgUsers == 2
\* sessions created
MaxTgSessions == 3
\* advances of the clock
MaxTgTicks == 2

TgUsers ==
    1..MaxTgUsers

\* telegram_service.py:44  max_session_duration_hours=24
MaxSessionDurationHours == 24

\* how far one advance of the clock goes
TgJumps ==
    {1, MaxSessionDurationHours}

\* telegram_service.py:1-19  the names the module imports: datetime and
\* timedelta, but not ZoneInfo, which lines 61, 89, 112, ... use
ZoneInfoImported ==
    FALSE

\* the exception a coroutine is left with
NameError ==
    -1

\* telegram_service.py:61,89  datetime.now(ZoneInfo("Asia/Yangon")): the
\* value, or NameError when the name ZoneInfo cannot be resolved
NowInZone ==
    IF ZoneInfoImported THEN tgClock ELSE NameError

\* mutation of ExpiredSessions: every session of the map is collected
ExpiredSessionsAll(now) ==
    DOMAIN tgSessions

\* telegram_service.py:61-66  expired_sessions of one sweep: line 61 raises
\* before the list is bound when now cannot be computed; otherwise the list
\* holds the ids whose last_activity is more than the threshold before now
ExpiredSessions(now) ==
    IF now = NameError
    THEN {}
    ELSE {sid \in DOMAIN tgSessions :
             now - tgSessions[sid].last_activity > MaxSessionDurationHours}

\* f without the keys in S
Without(f, S) ==
    [k \in DOMAIN f \ S |-> f[k]]

\* f with key k set to v
With(f, k, v) ==
    [j \in DOMAIN f \cup {k} |-> IF j = k THEN v ELSE f[j]]

\* models/telegram.py:21-28, telegram_service.py:93-97  a new TelegramSession:
\* last_activity is the default, the time of construction
NewTgSession(user) ==
    [telegram_user |-> user, last_activity |-> tgClock]

\* mutation of IndexAfterCreate: the index entry of the user is not written
IndexAfterCreateKept(index, user, sid) ==
    index

\* telegram_service.py:100  self.user_sessions[telegram_id] = session_id
IndexAfterCreate(index, user, sid) ==
    With(index, user, sid)

InitTg ==
    /\ RotReady
    /\ storeType = "mongodb"
    /\ SearchIdle
    /\ StoreIdle
    /\ ChatIdle
    /\ RestIdle

\* telegram_service.py:82-107  get_or_create_session(telegram_user): a user
\* whose session is in the map gets NameError at line 89 (the exception is
\* raised before last_activity is assigned); any other user gets a new
\* session under a new id
GetOrCreateSession(user) ==
    /\ tgMade < MaxTgSessions
    /\ LET existing == IF user \in DOMAIN tgIndex THEN tgIndex[user] ELSE 0
       IN IF existing # 0 /\ existing \in DOMAIN tgSessions
          THEN IF NowInZone = NameError
               THEN /\ tgLast' = [NoTgOp EXCEPT !.op = "get", !.user = user,
                                     !.sid = existing, !.status = "raise"]
                    /\ UNCHANGED <<tgSessions, tgIndex, tgMade>>
               ELSE /\ tgSessions' = [tgSessions EXCEPT
                                         ![existing].last_activity = NowInZone]
                    /\ tgLast' = [NoTgOp EXCEPT !.op = "get", !.user = user,
                                     !.sid = existing]
                    /\ UNCHANGED <<tgIndex, tgMade>>
          ELSE LET sid == tgMade + 1
               IN /\ tgSessions' = With(tgSessions, sid, NewTgSession(user))
                  /\ tgIndex' = IndexAfterCreate(tgIndex, user, sid)
                  /\ tgMade' = sid
                  /\ tgLast' = [NoTgOp EXCEPT !.op = "create",
                                   !.user = user, !.sid = sid]
    /\ UNCHANGED <<tgClock, tgTicks, tgTask>>
    /\ UNCHANGED othersTg

\* telegram_service.py:109-147 (and 149-353)  a message handler on a session:
\* its first statement, start_time = datetime.now(ZoneInfo(...)), raises
\* NameError, which the handler logs and raises again; otherwise it
\* refreshes last_activity
HandleMessage(sid) ==
    /\ sid \in DOMAIN tgSessions
    /\ IF NowInZone = NameError
       THEN /\ tgLast' = [NoTgOp EXCEPT !.op = "message", !.sid = sid,
                             !.status = "raise"]
            /\ UNCHANGED tgSessions
       ELSE /\ tgSessions' = [tgSessions EXCEPT
                                 ![sid].last_activity = NowInZone]
            /\ tgLast' = [NoTgOp EXCEPT !.op = "message", !.sid = sid]
    /\ UNCHANGED <<tgIndex, tgClock, tgTicks, tgMade, tgTask>>
    /\ UNCHANGED othersTg

\* telegram_service.py:59-80  one round of the loop of
\* _cleanup_expired_sessions, from waking up to the next sleep; there is no
\* await between the scan (64-66) and the removals (68-73).  An exception
\* is caught at 78 and the task sleeps and goes round again.
Sweep ==
    /\ tgTask = "running"
    /\ LET now == NowInZone
           expired_sessions == ExpiredSessions(now)
           users == {tgSessions[sid].telegram_user : sid \in expired_sessions}
       IN /\ tgSessions' = Without(tgSessions, expired_sessions)
          /\ tgIndex' = Without(tgIndex, users)
          /\ tgLast' = [NoTgOp EXCEPT
                           !.op = "sweep",
                           !.status = IF now = NameError THEN "raise"
                                      ELSE "ok",
                           !.expired = expired_sessions]
    /\ UNCHANGED <<tgClock, tgTicks, tgMade, tgTask>>
    /\ UNCHANGED othersTg

\* telegram_service.py:455-462  cleanup(): the task is cancelled and awaited
CleanupCancel ==
    /\ tgTask = "running"
    /\ tgTask' = "cancelling"
    /\ tgLast' = [NoTgOp EXCEPT !.op = "cancel"]
    /\ UNCHANGED <<tgSessions, tgIndex, tgClock, tgTicks, tgMade>>
    /\ UNCHANGED othersTg

\* telegram_service.py:464-465  cleanup(), after the await: both maps are
\* cleared
CleanupClear ==
    /\ tgTask = "cancelling"
    /\ tgTask' = "cancelled"
    /\ tgSessions' = <<>>
    /\ tgIndex' = <<>>
    /\ tgLast' = [NoTgOp EXCEPT !.op = "cleanup"]
    /\ UNCHANGED <<tgClock, tgTicks, tgMade>>
    /\ UNCHANGED othersTg

\* time passes
TgTick(d) ==
    /\ tgTicks < MaxTgTicks
    /\ tgTicks' = tgTicks + 1
    /\ tgClock' = tgClock + d
    /\ tgLast' = NoTgOp
    /\ UNCHANGED <<tgSessions, tgIndex, tgMade, tgTask>>
    /\ UNCHANGED othersTg

NextTg ==
    \/ \E user \in TgUsers : GetOrCreateSession(user)
    \/ \E sid \in DOMAIN tgSessions : HandleMessage(sid)
    \/ Sweep
    \/ CleanupCancel
    \/ CleanupClear
    \/ \E d \in TgJumps : TgTick(d)

SpecTg ==
    InitTg /\ [][NextTg]_vars

\* the event loop runs the cleanup task whenever its sleep is over, the
\* await of the cancelled task in cleanup() ends, and time passes
FairSpecTg ==
    /\ InitTg
    /\ [][NextTg]_vars
    /\ WF_vars(Sweep)
    /\ WF_vars(CleanupClear)
    /\ WF_vars(\E d \in TgJumps : TgTick(d))

(***************************************************************************)
(* Claims about the in-memory Telegram sessions                            *)
(***************************************************************************)

\* the session ids that this step takes out of the map
C22_Removed ==
    DOMAIN tgSessions \ DOMAIN tgSessions'

\* this step is a round of the cleanup task
C22_SweepStep ==
    tgLast'.op = "sweep"

\* C22: a round of the cleanup sweep evicts no session whose last_activity
\* is within max_session_duration_hours of the time of the removal, also
\* with get_or_create_session and message handlers running between the
\* rounds; it removes the ids it collected while iterating over the map and
\* no others, and it adds none.
C22_SweepEvictsOnlyExpired ==
    [][C22_SweepStep =>
          /\ \A sid \in C22_Removed :
                tgClock - tgSessions[sid].last_activity
                    > MaxSessionDurationHours
          /\ C22_Removed = tgLast'.expired
          /\ DOMAIN tgSessions' \subseteq DOMAIN tgSessions]_vars

\* a round of the sweep has run over a map that holds a session created
\* after another round, and the session is still in the map
C22_Witness ==
    /\ tgLast.op = "sweep"
    /\ tgTicks > 0
    /\ \E sid \in DOMAIN tgSessions :
          /\ tgClock - tgSessions[sid].last_activity
                 <= MaxSessionDurationHours
          /\ tgSessions[sid].last_activity > 0

\* session sid has had no activity for longer than the threshold, and the
\* cleanup task is running
C23_Idle(sid) ==
    /\ tgTask = "running"
    /\ sid \in DOMAIN tgSessions
    /\ tgClock - tgSessions[sid].last_activity > MaxSessionDurationHours

\* session sid is in neither map, or it has had activity again
C23_Gone(sid) ==
    \/ /\ sid \notin DOMAIN tgSessions
       /\ \A user \in DOMAIN tgIndex : tgIndex[user] # sid
    \/ /\ sid \in DOMAIN tgSessions
       /\ tgClock - tgSessions[sid].last_activity <= MaxSessionDurationHours

\* C23: with the cleanup task scheduled fairly, every session that has had
\* no activity for longer than max_session_duration_hours while the task
\* runs is eventually removed from the session map and from the
\* user-to-session index, unless it receives activity again.
C23_IdleSessionsRemoved ==
    \A sid \in 1..MaxTgSessions : C23_Idle(sid) ~> C23_Gone(sid)

\* C27: every entry of the user-to-session index points to a session in the
\* map whose telegram user is that user, no user has two sessions in the
\* map, and every session in the map is the one its user's index entry
\* points to.
C27_IndexMatchesMap ==
    /\ \A user \in DOMAIN tgIndex :
          /\ tgIndex[user] \in DOMAIN tgSessions
          /\ tgSessions[tgIndex[user]].telegram_user = user
    /\ \A a, b \in DOMAIN tgSessions :
          tgSessions[a].telegram_user = tgSessions[b].telegram_user => a = b
    /\ \A sid \in DOMAIN tgSessions :
          /\ tgSessions[sid].telegram_user \in DOMAIN tgIndex
          /\ tgIndex[tgSessions[sid].telegram_user] = sid

\* two users have a session each, one of them created after cleanup() had
\* emptied the maps, and a get_or_create_session of a user with a session
\* has just run
C27_Witness ==
    /\ Cardinality(DOMAIN tgSessions) = 2
    /\ Cardinality(DOMAIN tgIndex) = 2
    /\ tgTask = "cancelled"
    /\ tgLast.op = "get"

(***************************************************************************)
(* Several GeminiClient instances in one process                           *)
(* genai.configure(api_key=...) sets the key of the google.generativeai    *)
(* module, which is one per process; a remote call (genai.embed_content,   *)
(* model.generate_content) is given no key and goes out under the key      *)
(* that was configured last.  A key is written by its index in the pool.   *)
(***************************************************************************)
\* calls started through the clients
MaxPoolOps == 3

\* gemini_client.py:47  func is handed to a thread: the call goes out under
\* the configured key, while the client's own active index is own
Dispatched(call, c, att, idx, configured) ==
    [call EXCEPT !.pc = "awaiting", !.client = c, !.attempts = att,
                 !.own = idx, !.sent = configured,
                 !.seen = call.seen \cup {idx}, !.outcome = "none"]

InitPool ==
    /\ RotReady
    /\ storeType = "mongodb"
    /\ SearchIdle
    /\ StoreIdle
    /\ ChatIdle
    /\ TgIdle
    /\ HistIdle
    /\ AskIdle
    /\ UpIdle
    /\ poolKeys \in 1..MaxKeys
    /\ genaiKey = NotBuilt
    /\ keyIndexOf = [c \in Clients |-> NotBuilt]
    /\ rcall = [p \in Callers |-> NoCall]
    /\ poolOps = 0

\* gemini_client.py:11-28  GeminiClient(): Orchestrator, VectorStore and each
\* backend build their own (orchestrator.py:19, vectorstore.py:20,
\* mongodb_vectorstore.py:22, zilliz_vectorstore.py:21), FileParser builds
\* one for each image (file_parser.py:141)
ConstructClient(c) ==
    /\ keyIndexOf[c] = NotBuilt
    /\ keyIndexOf' = [keyIndexOf EXCEPT ![c] = 0]
    /\ genaiKey' = 0
    /\ UNCHANGED <<poolKeys, rcall, poolOps>>
    /\ UNCHANGED othersPool

\* gemini_client.py:37-47  caller p enters _with_key_rotation of client c
\* and the first attempt is dispatched
PoolBegin(p, c) ==
    /\ keyIndexOf[c] # NotBuilt
    /\ rcall[p].pc \in {"idle", "done"}
    /\ poolOps < MaxPoolOps
    /\ poolOps' = poolOps + 1
    /\ rcall' = [rcall EXCEPT
                    ![p] = Dispatched(NoCall, c, 0, keyIndexOf[c], genaiKey)]
    /\ UNCHANGED <<poolKeys, genaiKey, keyIndexOf>>
    /\ UNCHANGED othersPool

\* gemini_client.py:47  the remote function returned
PoolReturns(p) ==
    /\ rcall[p].pc = "awaiting"
    /\ rcall' = [rcall EXCEPT ![p].pc = "done", ![p].outcome = "ok"]
    /\ UNCHANGED <<poolKeys, genaiKey, keyIndexOf, poolOps>>
    /\ UNCHANGED othersPool

\* gemini_client.py:48-70  the remote function raised e with message m: a
\* rotatable failure rotates the index of the client (30-32, which also
\* configures genai with the new key) and either dispatches the next
\* attempt or, with attempts = limit, raises last_error; any other failure
\* is raised at once
PoolFails(p, m) ==
    /\ rcall[p].pc = "awaiting"
    /\ LET c == rcall[p].client
           idx == RotateKey(keyIndexOf[c], poolKeys)
           att == rcall[p].attempts + 1
       IN IF IsRotatable(m)
          THEN /\ keyIndexOf' = [keyIndexOf EXCEPT ![c] = idx]
               /\ genaiKey' = idx
               /\ rcall' = [rcall EXCEPT ![p] =
                     IF ShouldContinue(att, Limit(0, poolKeys))
                     THEN Dispatched(rcall[p], c, att, idx, idx)
                     ELSE [rcall[p] EXCEPT !.pc = "done", !.attempts = att,
                                           !.outcome = "exhausted"]]
          ELSE /\ rcall' = [rcall EXCEPT ![p].pc = "done",
                                         ![p].outcome = "immediate"]
               /\ UNCHANGED <<genaiKey, keyIndexOf>>
    /\ UNCHANGED <<poolKeys, poolOps>>
    /\ UNCHANGED othersPool

NextPool ==
    \/ \E c \in Clients : ConstructClient(c)
    \/ \E p \in Callers, c \in Clients : PoolBegin(p, c)
    \/ \E p \in Callers : PoolReturns(p)
    \/ \E p \in Callers, m \in Messages : PoolFails(p, m)

SpecPool ==
    InitPool /\ [][NextPool]_vars

(***************************************************************************)
(* Claims about clients and the process-wide key                           *)
(***************************************************************************)

\* C25: whenever a remote call is in flight through a client, the key it was
\* issued under is the pool key at that client's own active index, also
\* when other clients of the process are constructed or rotate.
C25_CallUsesOwnKey ==
    \A p \in Callers :
        rcall[p].pc = "awaiting" => rcall[p].sent = rcall[p].own

\* the indexes of the keys of the pool
C26_PoolIndexes ==
    0..(poolKeys - 1)

\* C26: a call ends exhausted only after it has itself attempted the remote
\* function under every key of the pool, also when other calls on the same
\* client fail and rotate at the same time.
C26_ExhaustedTriedAllKeys ==
    \A p \in Callers :
        rcall[p].outcome = "exhausted" => rcall[p].seen = C26_PoolIndexes

(***************************************************************************)
(* The conversation history of a GeminiClient                              *)
(* An entry is written by the number of the append that made it.           *)
(***************************************************************************)
\* generation calls started on the client
MaxGen == 11

\* gemini_client.py:118-119, 174-175  the capacity of chat_history
HistoryLimit == 20

\* mutation of Truncated: the oldest entries are kept (chat_history[:20])
TruncatedKeepOldest(h) ==
    IF Len(h) > HistoryLimit THEN SubSeq(h, 1, HistoryLimit) ELSE h

\* gemini_client.py:118-119, 174-175
\* if len(self.chat_history) > 20: self.chat_history = self.chat_history[-20:]
Truncated(h) ==
    IF Len(h) > HistoryLimit
    THEN SubSeq(h, Len(h) - HistoryLimit + 1, Len(h))
    ELSE h

\* gemini_client.py:116-117, 172-173  the entry of the query and the entry of
\* the answer are appended; kind is "text" or "image"
WithTurn(h, n, kind) ==
    Append(Append(h, [n |-> n + 1, role |-> "user", kind |-> kind]),
           [n |-> n + 2, role |-> "assistant", kind |-> kind])

InitHist ==
    /\ RotReady
    /\ storeType = "mongodb"
    /\ SearchIdle
    /\ StoreIdle
    /\ ChatIdle
    /\ RestIdle

\* gemini_client.py:72-83 generate_response, 126-143
\* generate_response_with_image: up to the await of _with_key_rotation
GenBegin(p, kind) ==
    /\ gen[p] = "idle"
    /\ genStarted < MaxGen
    /\ genStarted' = genStarted + 1
    /\ gen' = [gen EXCEPT ![p] = kind]
    /\ UNCHANGED <<chat_history, appended>>
    /\ UNCHANGED othersHist

\* gemini_client.py:85-121, 145-178  the remote call returned: the two
\* entries are appended and the history is cut, with no await in between
GenReturns(p) ==
    /\ gen[p] # "idle"
    /\ chat_history' = Truncated(WithTurn(chat_history, appended, gen[p]))
    /\ appended' = appended + 2
    /\ gen' = [gen EXCEPT ![p] = "idle"]
    /\ UNCHANGED genStarted
    /\ UNCHANGED othersHist

\* gemini_client.py:122-124, 180-182  the call raised: nothing is appended
GenRaises(p) ==
    /\ gen[p] # "idle"
    /\ gen' = [gen EXCEPT ![p] = "idle"]
    /\ UNCHANGED <<chat_history, appended, genStarted>>
    /\ UNCHANGED othersHist

NextHist ==
    \/ \E p \in Callers, kind \in {"text", "image"} : GenBegin(p, kind)
    \/ \E p \in Callers : GenReturns(p)
    \/ \E p \in Callers : GenRaises(p)

SpecHist ==
    InitHist /\ [][NextHist]_vars

(***************************************************************************)
(* Claims about the conversation history                                   *)
(***************************************************************************)

\* C24: after any sequence of generation calls, text or image, also
\* interleaved ones, chat_history holds at most 20 entries, and they are the
\* most recently appended entries in the order of their appending: what
\* overflows is removed from the front.
C24_HistoryIsMostRecent ==
    /\ Len(chat_history) <= HistoryLimit
    /\ Len(chat_history) = Min(appended, HistoryLimit)
    /\ \A i \in DOMAIN chat_history :
          chat_history[i].n = appended - Len(chat_history) + i

\* more than 20 entries have been appended, by text and by image calls
C24_Witness ==
    /\ appended > HistoryLimit
    /\ Len(chat_history) = HistoryLimit
    /\ chat_history[1].n = appended - HistoryLimit + 1
    /\ \E i, j \in DOMAIN chat_history :
          chat_history[i].kind = "text" /\ chat_history[j].kind = "image"

(***************************************************************************)
(* Orchestrator.handle_text and POST /chat/sessions/{session_id}/chat      *)
(* The requests are on one existing session.  ChatService.add_message      *)
(* has no await of its own (pymongo calls are synchronous): the code       *)
(* between two awaits of handle_text is one step.                          *)
(***************************************************************************)
\* chat requests started
MaxAsk == 3

\* mutation of AfterGeneration: a failed generation is tried again
AfterGenerationRetry(ok) ==
    IF ok THEN "returned" ELSE "generating"

\* orchestrator.py:36-45  handle_text after generate_response: the response
\* is returned, an exception is logged and raised again
AfterGeneration(ok) ==
    IF ok THEN "returned" ELSE "raised"

\* orchestrator.py:31-45  handle_text after retrieve_context: the context
\* goes to generate_response, an exception is logged and raised again
AfterRetrieval(ok) ==
    IF ok THEN "generating" ELSE "raised"

\* orchestrator.py:22,41, gemini_client.py:121  what handle_text returns:
\* the response text, a str
ResponseType ==
    "str"

\* chat_service.py:152-176  the role add_message stores: "user" for a str,
\* message_data.role otherwise
StoredRole(message_type, role) ==
    IF message_type = "str" THEN "user" ELSE role

\* chat_route.py:334  ai_response["response"]: the value of the key of a
\* dict, TypeError for a str
Subscript(response_type) ==
    IF response_type = "dict" THEN "value" ELSE "TypeError"

\* chat_service.py:180-194  add_message: insert_one, then the update of the
\* session, which raises on a server that rejects it
AddMessageRaises ==
    server = "rejects"

\* chat_service.py:152-180  the message add_message inserts for request id
Message(id, role, content) ==
    [by |-> id, role |-> role, content |-> content]

InitAsk ==
    /\ RotReady
    /\ storeType = "mongodb"
    /\ SearchIdle
    /\ StoreIdle
    /\ server \in {"stores", "rejects"}
    /\ clock = 0
    /\ ticks = 0
    /\ sessions = <<>>
    /\ messages = <<>>
    /\ wr = [p \in Callers |-> IdleWriter]
    /\ slast = NoChatOp
    /\ RestIdle

\* chat_route.py:296-322  the session is found, the message of the user is
\* added and handle_text is called, which cleans the query and awaits
\* retrieve_context (orchestrator.py:28-31)
AskBegin(p) ==
    /\ ask[p].pc = "idle"
    /\ askStarted < MaxAsk
    /\ askStarted' = askStarted + 1
    /\ chatLog' = Append(chatLog,
                         Message(askStarted + 1,
                                 StoredRole("ChatMessageCreate", "user"),
                                 "question"))
    /\ ask' = [ask EXCEPT ![p] =
                  IF AddMessageRaises
                  THEN [NoRequest EXCEPT !.id = askStarted + 1,
                                         !.pc = "done", !.status = "error"]
                  ELSE [NoRequest EXCEPT !.id = askStarted + 1,
                                         !.pc = "retrieving",
                                         !.trace = <<"retrieve">>]]
    /\ UNCHANGED varsChat
    /\ UNCHANGED othersAsk

\* orchestrator.py:31-45  retrieve_context returned or raised
RetrieveEnds(p, ok) ==
    /\ ask[p].pc = "retrieving"
    /\ ask' = [ask EXCEPT ![p] =
                  IF AfterRetrieval(ok) = "generating"
                  THEN [@ EXCEPT !.pc = "generating",
                                 !.trace = Append(@, "generate")]
                  ELSE [@ EXCEPT !.pc = "done", !.failed = "retrieve",
                                 !.handle = "raised", !.status = "error"]]
    /\ UNCHANGED <<chatLog, askStarted>>
    /\ UNCHANGED varsChat
    /\ UNCHANGED othersAsk

\* orchestrator.py:36-45, chat_route.py:322-362  generate_response returned
\* or raised.  When handle_text returns, the route adds ai_response itself
\* as a message (324-327), then reads ai_response["response"] (334) and, if
\* that gives a value, adds the assistant message (339-344) and returns it.
GenerateEnds(p, ok) ==
    /\ ask[p].pc = "generating"
    /\ LET next == AfterGeneration(ok)
           id == ask[p].id
           bot == Message(id, StoredRole(ResponseType, "none"), "answer")
           ai == Message(id, StoredRole("ChatMessageCreate", "assistant"),
                         "answer")
       IN IF next = "generating"
          THEN /\ ask' = [ask EXCEPT ![p].trace = Append(@, "generate"),
                                     ![p].failed = "generate"]
               /\ UNCHANGED chatLog
          ELSE IF next = "raised"
          THEN /\ ask' = [ask EXCEPT ![p].pc = "done",
                                     ![p].failed = "generate",
                                     ![p].handle = "raised",
                                     ![p].status = "error"]
               /\ UNCHANGED chatLog
          ELSE IF AddMessageRaises \/ Subscript(ResponseType) = "TypeError"
          THEN /\ ask' = [ask EXCEPT ![p].pc = "done",
                                     ![p].handle = "returned",
                                     ![p].status = "error"]
               /\ chatLog' = Append(chatLog, bot)
          ELSE /\ ask' = [ask EXCEPT ![p].pc = "done",
                                     ![p].handle = "returned",
                                     ![p].status = "ok",
                                     ![p].returned = "assistant"]
               /\ chatLog' = Append(Append(chatLog, bot), ai)
    /\ UNCHANGED askStarted
    /\ UNCHANGED varsChat
    /\ UNCHANGED othersAsk

\* the request has been answered; the caller may make another
AskEnd(p) ==
    /\ ask[p].pc = "done"
    /\ ask' = [ask EXCEPT ![p] = NoRequest]
    /\ UNCHANGED <<chatLog, askStarted>>
    /\ UNCHANGED varsChat
    /\ UNCHANGED othersAsk

NextAsk ==
    \/ \E p \in Callers : AskBegin(p)
    \/ \E p \in Callers, ok \in BOOLEAN : RetrieveEnds(p, ok)
    \/ \E p \in Callers, ok \in BOOLEAN : GenerateEnds(p, ok)
    \/ \E p \in Callers : AskEnd(p)

SpecAsk ==
    InitAsk /\ [][NextAsk]_vars

(***************************************************************************)
(* Claims about handle_text and the chat request                           *)
(***************************************************************************)
\* the calls of handle_text, in order
C21_Calls ==
    <<"retrieve", "generate">>

\* handle_text has been called for the request of caller p
C21_Called(p) ==
    ask[p].pc \in {"retrieving", "generating"} \/ ask[p].handle # "none"

\* C21: handle_text calls retrieve_context exactly once and then
\* generate_response at most once, in that order; when generate_response
\* fails the exception reaches the caller of handle_text and neither call is
\* made again for the request.
C21_RetrieveOnceThenGenerateOnce ==
    \A p \in Callers :
        /\ C21_Called(p) =>
               /\ Len(ask[p].trace) \in 1..2
               /\ ask[p].trace = SubSeq(C21_Calls, 1, Len(ask[p].trace))
        /\ ask[p].pc = "generating" => ask[p].trace = C21_Calls
        /\ ask[p].handle = "returned" => ask[p].trace = C21_Calls
        /\ ask[p].failed = "generate" =>
               /\ ask[p].pc = "done"
               /\ ask[p].handle = "raised"
               /\ ask[p].trace = C21_Calls

\* a generation failed: handle_text raised after one retrieval and one
\* generation
C21_Witness ==
    \E p \in Callers :
        /\ ask[p].failed = "generate"
        /\ ask[p].handle = "raised"
        /\ ask[p].trace = C21_Calls

\* the roles of the messages that request id appended, in order
C30_Roles(id) ==
    LET mine == SelectSeq(chatLog, LAMBDA m : m.by = id)
    IN [i \in 1..Len(mine) |-> mine[i].role]

\* C30: a chat request whose generation succeeds appends exactly two
\* messages, the message of the user with role user and then the answer
\* once with role assistant, and returns that assistant message; a request
\* whose generation fails appends no assistant message.
C30_UserThenAssistant ==
    \A p \in Callers :
        /\ (ask[p].pc = "done" /\ ask[p].handle = "returned") =>
               /\ C30_Roles(ask[p].id) = <<"user", "assistant">>
               /\ ask[p].returned = "assistant"
        /\ ask[p].failed = "generate" =>
               \A i \in 1..Len(C30_Roles(ask[p].id)) :
                   C30_Roles(ask[p].id)[i] # "assistant"

(***************************************************************************)
(* POST /files and DELETE /file/{file_id}                                  *)
(* One upload is one file of the batch of an admin.  An id is a sequence   *)
(* of the parts it is concatenated from, so that two ids are equal exactly *)
(* when the strings are.  The chunks that split_text returns are an input; *)
(* each embedding is one await of _with_key_rotation, which returns or     *)
(* raises (a non-rotatable error, or a rotatable one with every key        *)
(* tried).                                                                 *)
(***************************************************************************)
\* chunks of a file
MaxChunks == 2

\* the names of the uploaded files
FileNames ==
    {"a.txt", "b.txt"}

\* gemini_client.py:37-70  how an embedding call raises
EmbedErrors ==
    {"non_rotatable", "exhausted"}

\* file_route.py:63  str(uuid.uuid4()): the n-th uuid made
Uuid(n) ==
    <<n>>

\* file_route.py:65  file_id + "_" + file.filename
ReportedId(file_id, filename) ==
    file_id \o <<"_", filename>>

\* orchestrator.py:88-95, mongodb_vectorstore.py:88-102  the document of
\* chunk i: the metadata of process_file, promoted to top-level fields
Document(file_id, filename, i) ==
    [file_id |-> file_id, filename |-> filename, source |-> "file_upload",
     chunk |-> i]

\* the documents of chunks 1..n, in order
RECURSIVE Documents(_, _, _)
Documents(file_id, filename, n) ==
    IF n = 0
    THEN <<>>
    ELSE Append(Documents(file_id, filename, n - 1),
                Document(file_id, filename, n))

\* mutation of Inserted: each chunk is inserted as soon as the backend has
\* embedded it
InsertedEachChunk(u, pass, k) ==
    IF pass = 2 /\ storeType = "mongodb"
    THEN <<Document(u.file_id, u.filename, k)>>
    ELSE <<>>

\* vectorstore.py:65, mongodb_vectorstore.py:85-108  what is inserted when
\* chunk k of a pass has been embedded: nothing until the backend has every
\* embedding, then all documents in one insert_many
Inserted(u, pass, k) ==
    IF pass = 2 /\ k = u.chunks /\ storeType = "mongodb"
    THEN Documents(u.file_id, u.filename, u.chunks)
    ELSE <<>>

\* mongodb_vectorstore.py:331-337  delete_many({"file_id": id})
AfterDeleteMany(d, id) ==
    SelectSeq(d, LAMBDA doc : doc.file_id # id)

\* orchestrator.py:98-101, file_route.py:80-83  process_file raised: the
\* file is reported with status "error"
Failed(u, error) ==
    [u EXCEPT !.pc = "done", !.status = "error", !.error = error]

\* file_route.py:74-81  process_file returned: the file is reported with
\* status "success" and file_id_no_ext as its file_id
Succeeded(u) ==
    [u EXCEPT !.pc = "done", !.status = "success",
              !.reported = ReportedId(u.file_id, u.filename)]

InitUpload ==
    /\ RotReady
    /\ storeType \in {"mongodb", "zilliz"}
    /\ via = "none"
    /\ spc = "idle"
    /\ tried = {}
    /\ tierOut = [t \in Tiers |-> NoResult]
    /\ result = NoResult
    /\ StoreIdle
    /\ ChatIdle
    /\ RestIdle

\* file_route.py:55-74, orchestrator.py:85-95, vectorstore.py:60-65
\* the file is accepted, split_text returns n chunks and add_documents
\* returns at once for no chunk, awaits the first embedding otherwise
UploadBegin(u, filename, n) ==
    /\ u = upStarted + 1
    /\ up[u].pc = "idle"
    /\ upStarted' = u
    /\ LET begun == [NoUpload EXCEPT !.file_id = Uuid(u),
                                     !.filename = filename, !.chunks = n]
       IN up' = [up EXCEPT ![u] =
                    IF n = 0
                    THEN Succeeded(begun)
                    ELSE [begun EXCEPT !.pc = "embedding", !.pass = 1]]
    /\ UNCHANGED <<docs, deletedIds, storeType>>
    /\ UNCHANGED othersUp

\* gemini_client.py:184-237  the embedding of the next chunk returns.  After
\* the last chunk of VectorStore's pass the backend embeds them all again
\* (vectorstore.py:71-74); after the last chunk of the backend's pass
\* MongoDB inserts (mongodb_vectorstore.py:88-108) and Zilliz raises
\* NameError building created_at (zilliz_vectorstore.py:148).
EmbedReturns(u) ==
    /\ up[u].pc = "embedding"
    /\ LET k == up[u].embedded + 1
           pass == up[u].pass
       IN /\ docs' = docs \o Inserted(up[u], pass, k)
          /\ up' = [up EXCEPT ![u] =
                       IF k < up[u].chunks
                       THEN [@ EXCEPT !.embedded = k]
                       ELSE IF pass = 1
                       THEN [@ EXCEPT !.pass = 2, !.embedded = 0]
                       ELSE IF storeType = "mongodb"
                       THEN Succeeded([@ EXCEPT !.embedded = k])
                       ELSE Failed([@ EXCEPT !.embedded = k], "NameError")]
    /\ UNCHANGED <<upStarted, deletedIds, storeType>>
    /\ UNCHANGED othersUp

\* gemini_client.py:55-70,235-237, vectorstore.py:78-80,
\* mongodb_vectorstore.py:111-113, orchestrator.py:98-101  the embedding of
\* the next chunk raises, and so does everything up to the route
EmbedRaises(u, error) ==
    /\ up[u].pc = "embedding"
    /\ up' = [up EXCEPT ![u] = Failed(@, error)]
    /\ UNCHANGED <<docs, upStarted, deletedIds, storeType>>
    /\ UNCHANGED othersUp

\* the ids a client can know: the file_id each finished upload reported,
\* and the file_id it is stored under
KnownIds ==
    {up[u].reported : u \in {v \in Uploads : up[v].status = "success"}}
        \cup {up[u].file_id : u \in {v \in Uploads : up[v].pc = "done"}}

\* file_route.py:152-161, orchestrator.py:103-115, vectorstore.py:122-134
\* DELETE /file/{file_id}
DeleteById(id) ==
    /\ id \notin deletedIds
    /\ docs' = IF storeType = "mongodb" THEN AfterDeleteMany(docs, id)
               ELSE docs
    /\ deletedIds' = deletedIds \cup {id}
    /\ UNCHANGED <<up, upStarted, storeType>>
    /\ UNCHANGED othersUp

NextUpload ==
    \/ \E u \in Uploads, filename \in FileNames, n \in 0..MaxChunks :
           UploadBegin(u, filename, n)
    \/ \E u \in Uploads : EmbedReturns(u)
    \/ \E u \in Uploads, error \in EmbedErrors : EmbedRaises(u, error)
    \/ \E id \in KnownIds : DeleteById(id)

SpecUpload ==
    InitUpload /\ [][NextUpload]_vars

(***************************************************************************)
(* Claims about uploads                                                    *)
(***************************************************************************)
\* the documents of the collection stored under the file_id of upload u
C28_Stored(u) ==
    SelectSeq(docs, LAMBDA doc : doc.file_id = up[u].file_id)

\* an embedding of upload u failed
C28_EmbeddingFailed(u) ==
    up[u].status = "error" /\ up[u].error \in EmbedErrors

\* C28: when the embedding of any chunk fails, the ingestion raises and the
\* store holds no chunk of the file; when the ingestion succeeds, the store
\* holds exactly one record per chunk, each tagged with the file_id, the
\* filename and the source "file_upload" (until the file is deleted).
C28_AllOrNothing ==
    \A u \in Uploads :
        /\ C28_EmbeddingFailed(u) => C28_Stored(u) = <<>>
        /\ (up[u].status = "success" /\ up[u].file_id \notin deletedIds) =>
               /\ Len(C28_Stored(u)) = up[u].chunks
               /\ \A i \in 1..up[u].chunks :
                      C28_Stored(u)[i] =
                          [file_id |-> up[u].file_id,
                           filename |-> up[u].filename,
                           source |-> "file_upload", chunk |-> i]

\* an upload failed at its last embedding, after the backend had embedded
\* an earlier chunk, and another upload stored all its chunks
C28_Witness ==
    \E u, v \in Uploads :
        /\ C28_EmbeddingFailed(u)
        /\ up[u].pass = 2
        /\ up[u].embedded = up[u].chunks - 1
        /\ up[u].chunks = MaxChunks
        /\ up[v].status = "success"
        /\ up[v].file_id \notin deletedIds
        /\ Len(C28_Stored(v)) = MaxChunks

\* C29: the file_id reported for a successfully indexed file identifies its
\* chunks: once the delete-file operation has been given that id, no chunk
\* the upload stored is left.
C29_ReportedIdDeletes ==
    \A u \in Uploads :
        (up[u].status = "success" /\ up[u].reported \in deletedIds) =>
            C28_Stored(u) = <<>>
====
